---- MODULE Spec2Model ----
(***************************************************************************)
(* RSU selling calculator (src/calculations.py): the French tax            *)
(* calculation library, modelled function by function.                     *)
(*                                                                         *)
(* Numbers.  The program computes with Python floats.  The model computes  *)
(* with exact rationals [n, d] in lowest terms (d > 0), so every product,  *)
(* sum and comparison below is the real-number value of the expression the *)
(* code evaluates; binary rounding of IEEE doubles is not represented.     *)
(* float("inf") is the record Inf (denominator 0).                         *)
(*                                                                         *)
(* State.  The library keeps nothing between calls: a state of the model   *)
(* is the call in progress -- the function called, its arguments, what it  *)
(* returned -- or no call at all (fn = "none"), together with the two      *)
(* module-level tables, a list and a dict that any code of the module      *)
(* could change in place.  There is one action per public function, taken  *)
(* by an idle caller with arguments drawn from bounded sets placed around  *)
(* the program's thresholds, and Return, which takes the caller back to    *)
(* idle.                                                                   *)
(*                                                                         *)
(* The interface (src/rsu_calculator.py) keeps the values of its input     *)
(* widgets and its status texts in session_state; its fetch callbacks are  *)
(* the actions of a second specification, SpecUI, in which fn and args     *)
(* hold the callback that ran last and what its fetches returned.          *)
(***************************************************************************)
EXTENDS Integers, Sequences, FiniteSets, TLC

VARIABLES fn, args, ret, FRENCH_TAX_BRACKETS_2025, SOCIAL_SECURITY_RATES,
          session_state

\* The module-level tables.
tables == <<FRENCH_TAX_BRACKETS_2025, SOCIAL_SECURITY_RATES>>

vars == <<fn, args, ret, tables, session_state>>

-----------------------------------------------------------------------------
(* Exact arithmetic standing for Python's float operators.                 *)

Abs(x) == IF x < 0 THEN -x ELSE x

RECURSIVE GCD(_, _)
GCD(a, b) == IF b = 0 THEN a ELSE GCD(b, a % b)

\* n/d in lowest terms with a positive denominator (d # 0).
Frac(n, d) ==
    LET s == IF d < 0 THEN -1 ELSE 1
        g == GCD(Abs(n), Abs(d))
    IN  [n |-> (s * n) \div g, d |-> (s * d) \div g]

FromInt(i) == [n |-> i, d |-> 1]

Zero == FromInt(0)

One == FromInt(1)

\* float("inf")
Inf == [n |-> 1, d |-> 0]

FAdd(a, b) ==
    LET g == GCD(a.d, b.d)
    IN  Frac(a.n * (b.d \div g) + b.n * (a.d \div g), (a.d \div g) * b.d)

FNeg(a) == [n |-> -a.n, d |-> a.d]

FSub(a, b) == FAdd(a, FNeg(b))

FMul(a, b) ==
    LET g1 == GCD(Abs(a.n), b.d)
        g2 == GCD(Abs(b.n), a.d)
    IN  Frac((a.n \div g1) * (b.n \div g2), (a.d \div g2) * (b.d \div g1))

\* a / b for b # 0 (Python raises ZeroDivisionError otherwise).
FDiv(a, b) == FMul(a, Frac(b.d, b.n))

FLt(a, b) == FSub(a, b).n < 0

FLe(a, b) == FSub(a, b).n <= 0

FGt(a, b) == FLt(b, a)

FGe(a, b) == FLe(b, a)

\* min(a, b) where b may be float("inf")
FMin(a, b) == IF b.d = 0 THEN a ELSE IF FLe(a, b) THEN a ELSE b

-----------------------------------------------------------------------------
(* Module-level tables.                                                    *)

CAPITAL_GAIN_PFU_RATE == Frac(30, 100)

\* Mutant: the table of the year before.
FRENCH_TAX_BRACKETS_2024 ==
    << <<FromInt(0), Frac(0, 100)>>,
       <<FromInt(11294), Frac(11, 100)>>,
       <<FromInt(28797), Frac(30, 100)>>,
       <<FromInt(82341), Frac(41, 100)>>,
       <<FromInt(177106), Frac(45, 100)>> >>

\* The list the module binds to FRENCH_TAX_BRACKETS_2025 when it is loaded.
\* (threshold, rate): the rate applies to income above the threshold.
FRENCH_TAX_BRACKETS_2025_at_import ==
    << <<FromInt(0), Frac(0, 100)>>,
       <<FromInt(11497), Frac(11, 100)>>,
       <<FromInt(29315), Frac(30, 100)>>,
       <<FromInt(83823), Frac(41, 100)>>,
       <<FromInt(180294), Frac(45, 100)>> >>

-----------------------------------------------------------------------------
(* Progressive income tax.                                                 *)

\* The for loop of get_marginal_tax_rate from bracket i on.
RECURSIVE marginal_loop(_, _, _)
marginal_loop(i, rate, annual_income) ==
    IF i > Len(FRENCH_TAX_BRACKETS_2025) THEN rate
    ELSE LET threshold == FRENCH_TAX_BRACKETS_2025[i][1]
             bracket_rate == FRENCH_TAX_BRACKETS_2025[i][2]
         IN  marginal_loop(i + 1,
                           IF FGt(annual_income, threshold) THEN bracket_rate ELSE rate,
                           annual_income)

\* Mutant: the comparison of the loop is >= instead of >.
RECURSIVE marginal_loop_ge(_, _, _)
marginal_loop_ge(i, rate, annual_income) ==
    IF i > Len(FRENCH_TAX_BRACKETS_2025) THEN rate
    ELSE marginal_loop_ge(i + 1,
                          IF FGe(annual_income, FRENCH_TAX_BRACKETS_2025[i][1])
                          THEN FRENCH_TAX_BRACKETS_2025[i][2] ELSE rate,
                          annual_income)

\* Mutant: the loop returns at the first bracket the income exceeds.
get_marginal_tax_rate_first_match(annual_income) ==
    IF FGt(annual_income, FRENCH_TAX_BRACKETS_2025[1][1])
    THEN FRENCH_TAX_BRACKETS_2025[1][2] ELSE Zero

get_marginal_tax_rate_ge(annual_income) == marginal_loop_ge(1, Zero, annual_income)

get_marginal_tax_rate(annual_income) == marginal_loop(1, Zero, annual_income)

\* The for loop of calculate_progressive_income_tax from bracket i on, with
\* its break.
RECURSIVE progressive_loop(_, _, _)
progressive_loop(i, tax, taxable_income) ==
    IF i > Len(FRENCH_TAX_BRACKETS_2025) THEN tax
    ELSE LET brackets == FRENCH_TAX_BRACKETS_2025
             threshold == brackets[i][1]
             rate == brackets[i][2]
             next_threshold == IF i + 1 <= Len(brackets) THEN brackets[i + 1][1] ELSE Inf
             bracket_ceiling == FMin(taxable_income, next_threshold)
             bracket_income == FSub(bracket_ceiling, threshold)
         IN  IF FLe(taxable_income, threshold) THEN tax
             ELSE progressive_loop(i + 1, FAdd(tax, FMul(bracket_income, rate)),
                                   taxable_income)

\* Mutant: the loop has no break, so brackets above the income are summed too.
RECURSIVE progressive_loop_no_break(_, _, _)
progressive_loop_no_break(i, tax, taxable_income) ==
    IF i > Len(FRENCH_TAX_BRACKETS_2025) THEN tax
    ELSE LET brackets == FRENCH_TAX_BRACKETS_2025
             next_threshold == IF i + 1 <= Len(brackets) THEN brackets[i + 1][1] ELSE Inf
             bracket_income == FSub(FMin(taxable_income, next_threshold), brackets[i][1])
         IN  progressive_loop_no_break(i + 1, FAdd(tax, FMul(bracket_income, brackets[i][2])),
                                       taxable_income)

\* Mutant: the whole income is taxed at its marginal rate.
calculate_progressive_income_tax_bracket_rate(taxable_income) ==
    IF FLe(taxable_income, Zero) THEN Zero
    ELSE FMul(taxable_income, marginal_loop(1, Zero, taxable_income))

calculate_progressive_income_tax_no_break(taxable_income) ==
    IF FLe(taxable_income, Zero) THEN Zero
    ELSE progressive_loop_no_break(1, Zero, taxable_income)

calculate_progressive_income_tax(taxable_income) ==
    IF FLe(taxable_income, Zero) THEN Zero
    ELSE progressive_loop(1, Zero, taxable_income)

\* Mutant: the whole increment is taxed at the marginal rate of the total.
calculate_tax_on_additional_income_flat(base_income, additional_income) ==
    FMul(additional_income, get_marginal_tax_rate(FAdd(base_income, additional_income)))

\* Mutant: the additional income is taxed on its own and the tax on the base
\* taken off.
calculate_tax_on_additional_income_apart(base_income, additional_income) ==
    FSub(calculate_progressive_income_tax(additional_income),
         calculate_progressive_income_tax(base_income))

\* Mutant: the tax on the base income is not taken off.
calculate_tax_on_additional_income_whole(base_income, additional_income) ==
    calculate_progressive_income_tax(FAdd(base_income, additional_income))

calculate_tax_on_additional_income(base_income, additional_income) ==
    LET tax_with_additional ==
            calculate_progressive_income_tax(FAdd(base_income, additional_income))
        tax_base_only == calculate_progressive_income_tax(base_income)
    IN  FSub(tax_with_additional, tax_base_only)

-----------------------------------------------------------------------------
(* Holding period.  A date is [year, month, day].                          *)

Date(y, m, d) == [year |-> y, month |-> m, day |-> d]

IsLeap(y) == (y % 4 = 0 /\ y % 100 # 0) \/ y % 400 = 0

DaysInMonth(y, m) ==
    IF m = 2 THEN (IF IsLeap(y) THEN 29 ELSE 28)
    ELSE IF m \in {4, 6, 9, 11} THEN 30 ELSE 31

IsDate(dt) == dt.month \in 1..12 /\ dt.day \in 1..DaysInMonth(dt.year, dt.month)

RECURSIVE DaysBeforeMonth(_, _)
DaysBeforeMonth(y, m) ==
    IF m = 1 THEN 0 ELSE DaysBeforeMonth(y, m - 1) + DaysInMonth(y, m - 1)

\* date.toordinal(): days since 0001-01-01, that day being 1.
ToOrdinal(dt) ==
    LET y == dt.year - 1
    IN  365 * y + (y \div 4) - (y \div 100) + (y \div 400)
        + DaysBeforeMonth(dt.year, dt.month) + dt.day

Sign(x) == IF x < 0 THEN -1 ELSE 1

\* relativedelta._set_months: a signed month count split into years and months.
set_months(months) ==
    IF Abs(months) > 11
    THEN LET s == Sign(months)
         IN  [years |-> ((months * s) \div 12) * s, months |-> ((months * s) % 12) * s]
    ELSE [years |-> 0, months |-> months]

\* dt + relativedelta(years, months): the day is clipped to the month's length.
add_months(dt, ym) ==
    LET m0 == dt.month + ym.months
        year == dt.year + ym.years + (IF m0 > 12 THEN 1 ELSE IF m0 < 1 THEN -1 ELSE 0)
        month == IF m0 > 12 THEN m0 - 12 ELSE IF m0 < 1 THEN m0 + 12 ELSE m0
        day == IF DaysInMonth(year, month) < dt.day THEN DaysInMonth(year, month) ELSE dt.day
    IN  Date(year, month, day)

\* The loop of relativedelta(dt1, dt2) that takes back a month count that
\* overshoots dt1.
RECURSIVE adjust_months(_, _, _)
adjust_months(dt1, dt2, months) ==
    LET dtm == add_months(dt2, set_months(months))
        backwards == ToOrdinal(dt1) < ToOrdinal(dt2)
        overshot == IF backwards THEN ToOrdinal(dt1) > ToOrdinal(dtm)
                    ELSE ToOrdinal(dt1) < ToOrdinal(dtm)
    IN  IF overshot
        THEN adjust_months(dt1, dt2, months + (IF backwards THEN 1 ELSE -1))
        ELSE months

\* dateutil's relativedelta(dt1, dt2) for two dates: years, months, days.
relativedelta(dt1, dt2) ==
    LET months == adjust_months(dt1, dt2,
                                (dt1.year - dt2.year) * 12 + (dt1.month - dt2.month))
        ym == set_months(months)
        dtm == add_months(dt2, ym)
    IN  [years |-> ym.years, months |-> ym.months,
         days |-> ToOrdinal(dt1) - ToOrdinal(dtm)]

\* Mutant: the holding period is the day count over 365.
calculate_years_held_days_only(vesting_date, sell_date) ==
    Frac(ToOrdinal(sell_date) - ToOrdinal(vesting_date), 365)

\* Mutant: the difference is taken from the sale back to the vesting.
calculate_years_held_swapped(vesting_date, sell_date) ==
    LET delta == relativedelta(vesting_date, sell_date)
    IN  FAdd(FAdd(FromInt(delta.years), Frac(delta.months, 12)), Frac(delta.days, 365))

\* Mutant: the holding period is the day count over 365.25.
calculate_years_held_by_days(vesting_date, sell_date) ==
    Frac(4 * (ToOrdinal(sell_date) - ToOrdinal(vesting_date)), 1461)

calculate_years_held(vesting_date, sell_date) ==
    LET delta == relativedelta(sell_date, vesting_date)
    IN  FAdd(FAdd(FromInt(delta.years), Frac(delta.months, 12)), Frac(delta.days, 365))

-----------------------------------------------------------------------------
(* Taper relief.                                                           *)

MACRON_I == "macron_i"

MACRON_III == "macron_iii"

UNRESTRICTED == "unrestricted"

TaxRegime == {MACRON_I, MACRON_III, UNRESTRICTED}

\* Optional[float] = None
None == [n |-> 0, d |-> 0]

\* The dict the module binds to SOCIAL_SECURITY_RATES when it is loaded.
SOCIAL_SECURITY_RATES_at_import ==
    [r \in TaxRegime |-> IF r = UNRESTRICTED THEN Frac(97, 1000) ELSE Frac(172, 1000)]

MACRON_III_THRESHOLD == 300000

MACRON_III_OVER_THRESHOLD_SOCIAL_RATE == Frac(97, 1000)

MACRON_III_SALARIALE_CONTRIBUTION == Frac(10, 100)

\* Mutant: the tiers start strictly after 2 and 8 years.
calculate_taper_relief_macron_i_strict(years_held) ==
    IF FGt(years_held, FromInt(8)) THEN <<TRUE, Frac(65, 100)>>
    ELSE IF FGt(years_held, FromInt(2)) THEN <<TRUE, Frac(50, 100)>>
    ELSE <<FALSE, Zero>>

calculate_taper_relief_macron_i(years_held) ==
    IF FGe(years_held, FromInt(8)) THEN <<TRUE, Frac(65, 100)>>
    ELSE IF FGe(years_held, FromInt(2)) THEN <<TRUE, Frac(50, 100)>>
    ELSE <<FALSE, Zero>>

\* (has_relief, relief_rate, over_threshold)
\* Mutant: a gain of exactly the threshold is no longer relieved.
calculate_taper_relief_macron_iii_below(acquisition_gain) ==
    IF FLt(acquisition_gain, FromInt(MACRON_III_THRESHOLD))
    THEN <<TRUE, Frac(50, 100), FALSE>>
    ELSE <<FALSE, Zero, TRUE>>

\* Mutant: over the threshold the relief flag is set with a rate of 0.
calculate_taper_relief_macron_iii_flagged(acquisition_gain) ==
    IF FLe(acquisition_gain, FromInt(MACRON_III_THRESHOLD))
    THEN <<TRUE, Frac(50, 100), FALSE>>
    ELSE <<TRUE, Zero, TRUE>>

calculate_taper_relief_macron_iii(acquisition_gain) ==
    IF FLe(acquisition_gain, FromInt(MACRON_III_THRESHOLD))
    THEN <<TRUE, Frac(50, 100), FALSE>>
    ELSE <<FALSE, Zero, TRUE>>

\* Mutant: every regime but Macron III is relieved by holding period.
calculate_taper_relief_by_holding(years_held, regime, acquisition_gain) ==
    IF regime = MACRON_III
    THEN LET r == calculate_taper_relief_macron_iii(acquisition_gain)
         IN  <<r[1], r[2]>>
    ELSE calculate_taper_relief_macron_i(years_held)

calculate_taper_relief(years_held, regime, acquisition_gain) ==
    IF regime = MACRON_I THEN calculate_taper_relief_macron_i(years_held)
    ELSE IF regime = MACRON_III
    THEN LET r == calculate_taper_relief_macron_iii(acquisition_gain)
         IN  <<r[1], r[2]>>
    ELSE <<FALSE, Zero>>

-----------------------------------------------------------------------------
(* Values and gains.                                                       *)

convert_usd_to_eur(usd_amount, usd_to_eur) == FMul(usd_amount, usd_to_eur)

calculate_gross_proceed(num_shares, current_value_eur) ==
    FMul(FromInt(num_shares), current_value_eur)

\* Mutant: a share count below 0 is taken as 0.
calculate_acquisition_gain_clamped(num_shares, vesting_value_eur) ==
    FMul(FromInt(IF num_shares < 0 THEN 0 ELSE num_shares), vesting_value_eur)

calculate_acquisition_gain(num_shares, vesting_value_eur) ==
    FMul(FromInt(num_shares), vesting_value_eur)

\* Mutant: the gain is multiplied by the relief rate, not by what is left of it.
calculate_acquisition_gain_after_relief_relieved_part(acquisition_gain, taper_relief_rate) ==
    FMul(acquisition_gain, taper_relief_rate)

calculate_acquisition_gain_after_relief(acquisition_gain, taper_relief_rate) ==
    FMul(acquisition_gain, FSub(One, taper_relief_rate))

\* Mutant: the capital gain is taken with the wrong sign.
calculate_capital_gain_swapped(gross_proceed, acquisition_gain) ==
    FSub(acquisition_gain, gross_proceed)

calculate_capital_gain(gross_proceed, acquisition_gain) ==
    FSub(gross_proceed, acquisition_gain)

-----------------------------------------------------------------------------
(* Taxes.                                                                  *)

\* Mutant: the rate comes from the table alone, Macron III over the threshold
\* included.
calculate_acquisition_social_security_table_only(acquisition_gain_after_relief, regime, acquisition_gain) ==
    FMul(acquisition_gain_after_relief, SOCIAL_SECURITY_RATES[regime])

calculate_acquisition_social_security(acquisition_gain_after_relief, regime, acquisition_gain) ==
    IF regime = MACRON_III /\ FGt(acquisition_gain, FromInt(MACRON_III_THRESHOLD))
    THEN FMul(acquisition_gain_after_relief, MACRON_III_OVER_THRESHOLD_SOCIAL_RATE)
    ELSE LET rate == IF regime \in DOMAIN SOCIAL_SECURITY_RATES
                     THEN SOCIAL_SECURITY_RATES[regime] ELSE Frac(172, 1000)
         IN  FMul(acquisition_gain_after_relief, rate)

\* Mutant: the options are tested for truth, so an income or a rate of 0 counts
\* as not supplied.
calculate_acquisition_income_tax_truthy(acquisition_gain_after_relief, annual_income, tax_rate) ==
    IF annual_income # None /\ annual_income # Zero
    THEN calculate_tax_on_additional_income(annual_income, acquisition_gain_after_relief)
    ELSE IF tax_rate # None /\ tax_rate # Zero
    THEN FMul(acquisition_gain_after_relief, tax_rate)
    ELSE FMul(acquisition_gain_after_relief, Frac(30, 100))

calculate_acquisition_income_tax(acquisition_gain_after_relief, annual_income, tax_rate) ==
    IF annual_income # None
    THEN calculate_tax_on_additional_income(annual_income, acquisition_gain_after_relief)
    ELSE IF tax_rate # None
    THEN FMul(acquisition_gain_after_relief, tax_rate)
    ELSE FMul(acquisition_gain_after_relief, Frac(30, 100))

\* Mutant: a loss is taxed like a gain.
calculate_capital_gain_tax_no_guard(capital_gain) ==
    FMul(capital_gain, CAPITAL_GAIN_PFU_RATE)

calculate_capital_gain_tax(capital_gain) ==
    IF FGt(capital_gain, Zero) THEN FMul(capital_gain, CAPITAL_GAIN_PFU_RATE)
    ELSE Zero

\* Mutant: the threshold itself already triggers the contribution.
calculate_salariale_contribution_ge(acquisition_gain, regime) ==
    IF regime = MACRON_III /\ FGe(acquisition_gain, FromInt(MACRON_III_THRESHOLD))
    THEN FMul(acquisition_gain, MACRON_III_SALARIALE_CONTRIBUTION)
    ELSE Zero

calculate_salariale_contribution(acquisition_gain, regime) ==
    IF regime = MACRON_III /\ FGt(acquisition_gain, FromInt(MACRON_III_THRESHOLD))
    THEN FMul(acquisition_gain, MACRON_III_SALARIALE_CONTRIBUTION)
    ELSE Zero

calculate_total_taxes(acquisition_social_security, acquisition_income_tax, capital_gain_tax, salariale_contribution) ==
    FAdd(FAdd(FAdd(acquisition_social_security, acquisition_income_tax),
              capital_gain_tax),
         salariale_contribution)

\* Mutant: the net amount is floored at 0 when taxes exceed the proceeds.
calculate_net_in_pocket_floored(gross_proceed, total_taxes) ==
    IF FGt(total_taxes, gross_proceed) THEN Zero ELSE FSub(gross_proceed, total_taxes)

calculate_net_in_pocket(gross_proceed, total_taxes) == FSub(gross_proceed, total_taxes)

\* Mutant: only a gross proceed of exactly 0 is guarded.
calculate_effective_tax_rate_zero_only(total_taxes, gross_proceed) ==
    IF gross_proceed = Zero THEN Zero
    ELSE FMul(FDiv(total_taxes, gross_proceed), FromInt(100))

calculate_effective_tax_rate(total_taxes, gross_proceed) ==
    IF FLe(gross_proceed, Zero) THEN Zero
    ELSE FMul(FDiv(total_taxes, gross_proceed), FromInt(100))

-----------------------------------------------------------------------------
(* Notes and the whole calculation.                                        *)

\* format(x, ".1f"), as a number of tenths: nearest tenth, ties to even.
format_1f(x) ==
    LET q == (10 * x.n) \div x.d
        r == 10 * x.n - q * x.d
    IN  IF 2 * r < x.d THEN q
        ELSE IF 2 * r > x.d THEN q + 1
        ELSE IF q % 2 = 0 THEN q ELSE q + 1

\* Mutant: the Macron I notes take the boundaries 2 and 8 as not yet reached.
get_regime_notes_strict(regime, years_held, acquisition_gain, taper_relief_rate) ==
    IF regime = MACRON_I
    THEN IF FGt(years_held, FromInt(8))
         THEN <<"Macron I: 65% abatement (held 8+ years)">>
         ELSE IF FGt(years_held, FromInt(2))
         THEN <<"Macron I: 50% abatement (held 2-8 years)">>
         ELSE <<"Macron I: No abatement (held < 2 years, need ",
                format_1f(FSub(FromInt(2), years_held)), " more years)">>
    ELSE IF regime = MACRON_III
    THEN IF FGt(acquisition_gain, FromInt(MACRON_III_THRESHOLD))
         THEN <<"Macron III: Over 300k threshold - treated as salary + 10% contribution">>
         ELSE <<"Macron III: 50% automatic abatement (gain under 300k)">>
    ELSE <<"Unrestricted: No abatement - fully taxed as salary">>

\* A note is the sequence of its pieces: literal text and formatted numbers.
get_regime_notes(regime, years_held, acquisition_gain, taper_relief_rate) ==
    IF regime = MACRON_I
    THEN IF FGe(years_held, FromInt(8))
         THEN <<"Macron I: 65% abatement (held 8+ years)">>
         ELSE IF FGe(years_held, FromInt(2))
         THEN <<"Macron I: 50% abatement (held 2-8 years)">>
         ELSE <<"Macron I: No abatement (held < 2 years, need ",
                format_1f(FSub(FromInt(2), years_held)), " more years)">>
    ELSE IF regime = MACRON_III
    THEN IF FGt(acquisition_gain, FromInt(MACRON_III_THRESHOLD))
         THEN <<"Macron III: Over 300k threshold - treated as salary + 10% contribution">>
         ELSE <<"Macron III: 50% automatic abatement (gain under 300k)">>
    ELSE <<"Unrestricted: No abatement - fully taxed as salary">>

\* Mutant: the Macron III relief is decided on the default gain of 0.
calculate_rsu_taxes_default_gain(input_data) ==
    LET years_held == calculate_years_held(input_data.vesting_date, input_data.sell_date)
        vesting_value_eur ==
            convert_usd_to_eur(input_data.vesting_value_usd, input_data.usd_to_eur)
        current_value_eur ==
            convert_usd_to_eur(input_data.current_value_usd, input_data.usd_to_eur)
        acquisition_gain ==
            calculate_acquisition_gain(input_data.num_shares, vesting_value_eur)
        relief == calculate_taper_relief(years_held, input_data.regime, Zero)
        acquisition_gain_after_relief ==
            calculate_acquisition_gain_after_relief(acquisition_gain, relief[2])
        gross_proceed ==
            calculate_gross_proceed(input_data.num_shares, current_value_eur)
        capital_gain == calculate_capital_gain(gross_proceed, acquisition_gain)
        acquisition_social_security ==
            calculate_acquisition_social_security(acquisition_gain_after_relief,
                                                  input_data.regime, acquisition_gain)
        acquisition_income_tax ==
            calculate_acquisition_income_tax(acquisition_gain_after_relief,
                                             input_data.annual_income,
                                             input_data.acquisition_tax_rate)
        capital_gain_tax == calculate_capital_gain_tax(capital_gain)
        salariale_contribution ==
            calculate_salariale_contribution(acquisition_gain, input_data.regime)
        total_taxes ==
            calculate_total_taxes(acquisition_social_security, acquisition_income_tax,
                                  capital_gain_tax, salariale_contribution)
    IN  [years_held |-> years_held,
         has_taper_relief |-> relief[1],
         taper_relief_rate |-> relief[2],
         vesting_value_eur |-> vesting_value_eur,
         current_value_eur |-> current_value_eur,
         gross_proceed |-> gross_proceed,
         acquisition_gain |-> acquisition_gain,
         acquisition_gain_after_relief |-> acquisition_gain_after_relief,
         capital_gain |-> capital_gain,
         acquisition_social_security |-> acquisition_social_security,
         acquisition_income_tax |-> acquisition_income_tax,
         capital_gain_tax |-> capital_gain_tax,
         salariale_contribution |-> salariale_contribution,
         total_taxes |-> total_taxes,
         net_in_pocket |-> calculate_net_in_pocket(gross_proceed, total_taxes),
         effective_tax_rate |-> calculate_effective_tax_rate(total_taxes, gross_proceed),
         regime |-> input_data.regime,
         regime_notes |-> get_regime_notes(input_data.regime, years_held,
                                           acquisition_gain, relief[2])]

\* Mutant: the capital gain is taken from the gain after relief.
calculate_rsu_taxes_relieved_base(input_data) ==
    LET years_held == calculate_years_held(input_data.vesting_date, input_data.sell_date)
        vesting_value_eur ==
            convert_usd_to_eur(input_data.vesting_value_usd, input_data.usd_to_eur)
        current_value_eur ==
            convert_usd_to_eur(input_data.current_value_usd, input_data.usd_to_eur)
        acquisition_gain ==
            calculate_acquisition_gain(input_data.num_shares, vesting_value_eur)
        relief == calculate_taper_relief(years_held, input_data.regime, acquisition_gain)
        acquisition_gain_after_relief ==
            calculate_acquisition_gain_after_relief(acquisition_gain, relief[2])
        gross_proceed ==
            calculate_gross_proceed(input_data.num_shares, current_value_eur)
        capital_gain == calculate_capital_gain(gross_proceed, acquisition_gain_after_relief)
        acquisition_social_security ==
            calculate_acquisition_social_security(acquisition_gain_after_relief,
                                                  input_data.regime, acquisition_gain)
        acquisition_income_tax ==
            calculate_acquisition_income_tax(acquisition_gain_after_relief,
                                             input_data.annual_income,
                                             input_data.acquisition_tax_rate)
        capital_gain_tax == calculate_capital_gain_tax(capital_gain)
        salariale_contribution ==
            calculate_salariale_contribution(acquisition_gain, input_data.regime)
        total_taxes ==
            calculate_total_taxes(acquisition_social_security, acquisition_income_tax,
                                  capital_gain_tax, salariale_contribution)
    IN  [years_held |-> years_held,
         has_taper_relief |-> relief[1],
         taper_relief_rate |-> relief[2],
         vesting_value_eur |-> vesting_value_eur,
         current_value_eur |-> current_value_eur,
         gross_proceed |-> gross_proceed,
         acquisition_gain |-> acquisition_gain,
         acquisition_gain_after_relief |-> acquisition_gain_after_relief,
         capital_gain |-> capital_gain,
         acquisition_social_security |-> acquisition_social_security,
         acquisition_income_tax |-> acquisition_income_tax,
         capital_gain_tax |-> capital_gain_tax,
         salariale_contribution |-> salariale_contribution,
         total_taxes |-> total_taxes,
         net_in_pocket |-> calculate_net_in_pocket(gross_proceed, total_taxes),
         effective_tax_rate |-> calculate_effective_tax_rate(total_taxes, gross_proceed),
         regime |-> input_data.regime,
         regime_notes |-> get_regime_notes(input_data.regime, years_held,
                                           acquisition_gain, relief[2])]

\* calculate_rsu_taxes is a run of assignments; the locals assigned so far
\* are a record, and each group of statements adds its own to it.

\* Final results and regime notes; the locals are now the fields of RSUResult.
calculate_rsu_taxes_result(input_data, locals) ==
    locals @@
    [net_in_pocket |->
         calculate_net_in_pocket(locals.gross_proceed, locals.total_taxes),
     effective_tax_rate |->
         calculate_effective_tax_rate(locals.total_taxes, locals.gross_proceed),
     regime |-> input_data.regime,
     regime_notes |->
         get_regime_notes(input_data.regime, locals.years_held,
                          locals.acquisition_gain, locals.taper_relief_rate)]

\* Total taxes
calculate_rsu_taxes_total(input_data, locals) ==
    calculate_rsu_taxes_result(input_data, locals @@
    [total_taxes |->
         calculate_total_taxes(locals.acquisition_social_security,
                               locals.acquisition_income_tax,
                               locals.capital_gain_tax,
                               locals.salariale_contribution)])

\* Social security, income tax, capital gain tax, salariale contribution
calculate_rsu_taxes_taxes(input_data, locals) ==
    calculate_rsu_taxes_total(input_data, locals @@
    [acquisition_social_security |->
         calculate_acquisition_social_security(locals.acquisition_gain_after_relief,
                                               input_data.regime,
                                               locals.acquisition_gain),
     acquisition_income_tax |->
         calculate_acquisition_income_tax(locals.acquisition_gain_after_relief,
                                          input_data.annual_income,
                                          input_data.acquisition_tax_rate),
     capital_gain_tax |-> calculate_capital_gain_tax(locals.capital_gain),
     salariale_contribution |->
         calculate_salariale_contribution(locals.acquisition_gain,
                                          input_data.regime)])

\* Capital gain
calculate_rsu_taxes_capital_gain(input_data, locals) ==
    calculate_rsu_taxes_taxes(input_data, locals @@
    [capital_gain |->
         calculate_capital_gain(locals.gross_proceed, locals.acquisition_gain)])

\* Gain after relief; gross proceed
calculate_rsu_taxes_after_relief(input_data, locals, relief) ==
    calculate_rsu_taxes_capital_gain(input_data, locals @@
    [has_taper_relief |-> relief[1],
     taper_relief_rate |-> relief[2],
     acquisition_gain_after_relief |->
         calculate_acquisition_gain_after_relief(locals.acquisition_gain, relief[2]),
     gross_proceed |->
         calculate_gross_proceed(input_data.num_shares, locals.current_value_eur)])

\* Taper relief
calculate_rsu_taxes_relief(input_data, locals) ==
    calculate_rsu_taxes_after_relief(
        input_data, locals,
        calculate_taper_relief(locals.years_held, input_data.regime,
                               locals.acquisition_gain))

\* Acquisition gain
calculate_rsu_taxes_acquisition_gain(input_data, locals) ==
    calculate_rsu_taxes_relief(input_data, locals @@
    [acquisition_gain |->
         calculate_acquisition_gain(input_data.num_shares,
                                    locals.vesting_value_eur)])

\* input_data is an RSUInput; the value is the RSUResult.
calculate_rsu_taxes(input_data) ==
    calculate_rsu_taxes_acquisition_gain(
        input_data,
        [years_held |->
             calculate_years_held(input_data.vesting_date, input_data.sell_date),
         vesting_value_eur |->
             convert_usd_to_eur(input_data.vesting_value_usd, input_data.usd_to_eur),
         current_value_eur |->
             convert_usd_to_eur(input_data.current_value_usd, input_data.usd_to_eur)])

-----------------------------------------------------------------------------
(* The calculation of the user interface (src/rsu_calculator.py), which    *)
(* imports the tables and calculate_tax_on_additional_income and does the  *)
(* rest itself.                                                            *)

\* format(n, ","): the groups of three digits, most significant first.
RECURSIVE format_comma(_)
format_comma(n) ==
    IF n < 1000 THEN <<n>> ELSE Append(format_comma(n \div 1000), n % 1000)

\* calculate_scenario is a run of assignments; the locals assigned so far
\* are a record, and each group of statements adds its own to it.

\* Net and effective rate; the locals are now the fields of ScenarioResult.
scenario_result(locals) ==
    locals @@
    [net_in_pocket |-> FSub(locals.gross_proceed, locals.total_taxes),
     effective_tax_rate |->
         IF FGt(locals.gross_proceed, Zero)
         THEN FMul(FDiv(locals.total_taxes, locals.gross_proceed), FromInt(100))
         ELSE Zero]

scenario_total(locals) ==
    scenario_result(locals @@
    [total_taxes |->
         FAdd(FAdd(FAdd(locals.acquisition_social_security,
                        locals.acquisition_income_tax),
                   locals.capital_gain_tax),
              locals.salariale_contribution)])

\* Taxes
scenario_taxes(locals) ==
    scenario_total(locals @@
    [acquisition_social_security |->
         FMul(locals.acquisition_gain_after_relief, locals.effective_social_rate),
     acquisition_income_tax |->
         IF locals.input.use_progressive_tax /\ locals.input.annual_income # None
         THEN calculate_tax_on_additional_income(locals.input.annual_income,
                                                 locals.acquisition_gain_after_relief)
         ELSE FMul(locals.acquisition_gain_after_relief, locals.input.tax_rate),
     capital_gain_tax |->
         IF FGt(locals.capital_gain, Zero)
         THEN FMul(locals.capital_gain, CAPITAL_GAIN_PFU_RATE)
         ELSE Zero,
     salariale_contribution |->
         IF locals.input.regime = MACRON_III
            /\ FGt(locals.acquisition_gain, FromInt(MACRON_III_THRESHOLD))
         THEN FMul(locals.acquisition_gain, MACRON_III_SALARIALE_CONTRIBUTION)
         ELSE Zero])

\* Gain after relief; social security rate
scenario_rates(locals) ==
    scenario_taxes(locals @@
    [acquisition_gain_after_relief |->
         FMul(locals.acquisition_gain, FSub(One, locals.taper_relief_rate)),
     effective_social_rate |->
         IF locals.input.regime = MACRON_III
            /\ FGt(locals.acquisition_gain, FromInt(MACRON_III_THRESHOLD))
         THEN Frac(97, 1000)
         ELSE IF locals.input.regime \in DOMAIN SOCIAL_SECURITY_RATES
         THEN SOCIAL_SECURITY_RATES[locals.input.regime] ELSE Frac(172, 1000)])

\* Taper relief: (has_taper_relief, taper_relief_rate, relief_description)
scenario_relief(years_held, regime, acquisition_gain) ==
    IF regime = MACRON_I
    THEN IF FGe(years_held, FromInt(8))
         THEN <<TRUE, Frac(65, 100), <<"65% (held 8+ years)">> >>
         ELSE IF FGe(years_held, FromInt(2))
         THEN <<TRUE, Frac(50, 100), <<"50% (held 2-8 years)">> >>
         ELSE <<FALSE, Zero, <<"None (need 2+ years)">> >>
    ELSE IF regime = MACRON_III
    THEN IF FLe(acquisition_gain, FromInt(MACRON_III_THRESHOLD))
         THEN <<TRUE, Frac(50, 100),
                <<"50% (under EUR ", format_comma(MACRON_III_THRESHOLD), ")">> >>
         ELSE <<FALSE, Zero,
                <<"None (over EUR ", format_comma(MACRON_III_THRESHOLD), ")">> >>
    ELSE <<FALSE, Zero, <<"None (unrestricted)">> >>

scenario_taper(locals, relief) ==
    scenario_rates(locals @@
    [has_taper_relief |-> relief[1],
     taper_relief_rate |-> relief[2],
     relief_description |-> relief[3]])

scenario_capital_gain(locals) ==
    scenario_taper(
        locals @@
        [capital_gain |-> FSub(locals.gross_proceed, locals.acquisition_gain)],
        scenario_relief(locals.years_held, locals.input.regime,
                        locals.acquisition_gain))

\* Gains
scenario_gains(locals) ==
    scenario_capital_gain(locals @@
    [gross_proceed |->
         FMul(FromInt(locals.input.num_shares), locals.current_value_eur),
     acquisition_gain |->
         FMul(FromInt(locals.input.num_shares), locals.vesting_value_eur)])

\* Holding period from a relativedelta
scenario_years_held(holding_delta) ==
    FAdd(FAdd(FromInt(holding_delta.years), Frac(holding_delta.months, 12)),
         Frac(holding_delta.days, 365))

\* Holding period; convert to EUR
calculate_scenario(input_data) ==
    scenario_gains(
        [input |-> input_data,
         years_held |->
             scenario_years_held(
                 relativedelta(input_data.sell_date, input_data.vesting_date)),
         current_value_eur |->
             FMul(input_data.current_value_usd, input_data.usd_to_eur),
         vesting_value_eur |->
             FMul(input_data.vesting_value_usd, input_data.usd_to_eur)])

-----------------------------------------------------------------------------
(* The fetch callbacks of the interface.  session_state is a dict: a       *)
(* function from the keys present to their values.                         *)

\* session_state after the first run of the script, which renders both tabs:
\* the values of the widgets the callbacks write, no status text yet.  The
\* date widgets, which the callbacks only pass on to the fetch, are left out.
session_state_at_start ==
    [single_ticker |-> "META",
     single_vesting_value |-> FromInt(100),
     single_current_value |-> FromInt(150),
     single_usd_eur_input |-> Frac(92, 100),
     compare_ticker |-> "META",
     compare_usd_eur |-> Frac(92, 100),
     a_vesting_value |-> FromInt(100),
     a_current_value |-> FromInt(150),
     b_vesting_value |-> FromInt(80),
     b_current_value |-> FromInt(150)]

\* st.session_state.key = value
Store(state, key, value) ==
    [k \in DOMAIN state \cup {key} |-> IF k = key THEN value ELSE state[k]]

\* format(x, ".<places>f") for x >= 0, as a number of units of 10^-places:
\* nearest unit, ties to even.
format_fixed(x, units) ==
    LET q == (units * x.n) \div x.d
        r == units * x.n - q * x.d
    IN  IF 2 * r < x.d THEN q
        ELSE IF 2 * r > x.d THEN q + 1
        ELSE IF q % 2 = 0 THEN q ELSE q + 1

\* "if price": None and 0.0 are both false.
Truthy(price) == price # None /\ price # Zero

\* Mutant: the prices are stored only when all four fetches succeeded.
fetch_compare_prices_all_or_nothing(state, a_vp, a_cp, b_vp, b_cp) ==
    LET all == a_vp # None /\ a_cp # None /\ b_vp # None /\ b_cp # None
        s1 == IF all THEN Store(state, "a_vesting_value", a_vp) ELSE state
        s2 == IF all THEN Store(s1, "a_current_value", a_cp) ELSE s1
        s3 == IF all THEN Store(s2, "b_vesting_value", b_vp) ELSE s2
        s4 == IF all THEN Store(s3, "b_current_value", b_cp) ELSE s3
    IN  Store(s4, "compare_fetch_status", <<"A: ", a_vp, a_cp, " | B: ", b_vp, b_cp>>)

\* fetch_stock_prices, given what the two fetches returned.
fetch_stock_prices(state, vp, cp) ==
    LET s1 == IF vp # None THEN Store(state, "single_vesting_value", vp) ELSE state
        s2 == IF cp # None THEN Store(s1, "single_current_value", cp) ELSE s1
        vp_str == IF Truthy(vp) THEN <<"$", format_fixed(vp, 100)>> ELSE <<"failed">>
        cp_str == IF Truthy(cp) THEN <<"$", format_fixed(cp, 100)>> ELSE <<"failed">>
    IN  Store(s2, "fetch_status", <<"Vesting: ", vp_str, ", Current: ", cp_str>>)

\* fetch_usd_rate, given what the fetch returned.
fetch_usd_rate(state, rate) ==
    IF rate # None
    THEN Store(Store(state, "single_usd_eur_input", rate),
               "rate_status", <<"Rate: ", format_fixed(rate, 10000)>>)
    ELSE Store(state, "rate_status", <<"Failed to fetch rate">>)

\* fetch_compare_prices, given what the four fetches returned.
fetch_compare_prices(state, a_vp, a_cp, b_vp, b_cp) ==
    LET s1 == IF a_vp # None THEN Store(state, "a_vesting_value", a_vp) ELSE state
        s2 == IF a_cp # None THEN Store(s1, "a_current_value", a_cp) ELSE s1
        s3 == IF b_vp # None THEN Store(s2, "b_vesting_value", b_vp) ELSE s2
        s4 == IF b_cp # None THEN Store(s3, "b_current_value", b_cp) ELSE s3
        a_vp_str == IF Truthy(a_vp) THEN <<"$", format_fixed(a_vp, 100)>> ELSE <<"N/A">>
        a_cp_str == IF Truthy(a_cp) THEN <<"$", format_fixed(a_cp, 100)>> ELSE <<"N/A">>
        b_vp_str == IF Truthy(b_vp) THEN <<"$", format_fixed(b_vp, 100)>> ELSE <<"N/A">>
        b_cp_str == IF Truthy(b_cp) THEN <<"$", format_fixed(b_cp, 100)>> ELSE <<"N/A">>
    IN  Store(s4, "compare_fetch_status",
              <<"A: ", a_vp_str, "/", a_cp_str, " | B: ", b_vp_str, "/", b_cp_str>>)

\* fetch_compare_rate, given what the fetch returned.
fetch_compare_rate(state, rate) ==
    IF rate # None
    THEN Store(Store(state, "compare_usd_eur", rate),
               "compare_rate_status", <<"Rate: ", format_fixed(rate, 10000)>>)
    ELSE Store(state, "compare_rate_status", <<"Failed">>)

-----------------------------------------------------------------------------
(* Argument sets.                                                          *)

\* Amounts are drawn on a grid of half units, Radius steps either side of a
\* point.
Radius == 2

Near(c) == {Frac(2 * c + j, 2) : j \in -Radius..Radius}

Thresholds ==
    {FRENCH_TAX_BRACKETS_2025_at_import[i][1].n :
        i \in 1..Len(FRENCH_TAX_BRACKETS_2025_at_import)}

\* Incomes around every bracket threshold, plus incomes inside each bracket
\* and below zero.
Incomes ==
    UNION {Near(t) : t \in Thresholds}
    \cup {FromInt(x) : x \in {-1000, 10000, 20000, 25000, 35000, 50000,
                              100000, 170000, 190000, 200000}}

\* Holding periods around the two Macron I boundaries, down to one day short.
YearsHeldValues ==
    Near(2) \cup Near(8)
    \cup {FromInt(-1), Zero, FromInt(5), FromInt(10),
          Frac(2 * 365 - 1, 365), Frac(8 * 365 - 1, 365)}

\* Acquisition gains around the Macron III threshold, and away from it.
Gains ==
    Near(MACRON_III_THRESHOLD)
    \cup {Zero, FromInt(920), FromInt(10000), FromInt(400000)}

AfterReliefGains == {Zero, FromInt(322), FromInt(5000), FromInt(10000), FromInt(400000)}

CapitalGains == Near(0) \cup {FromInt(-10000), FromInt(460), FromInt(150000)}

AnnualIncomes == {None, Zero, FromInt(25000), FromInt(50000)}

FlatRates == {None, Zero, Frac(30, 100), Frac(45, 100)}

\* (annual_income, acquisition_tax_rate) as given to the whole calculation.
TaxOptions ==
    { <<None, None>>, <<None, Frac(45, 100)>>,
      <<Zero, None>>, <<FromInt(25000), None>>, <<FromInt(25000), Frac(45, 100)>>,
      <<FromInt(50000), Frac(30, 100)>>, <<FromInt(-1000), None>> }

\* (num_shares, vesting_value_usd, current_value_usd, usd_to_eur): a small lot
\* sold at a loss, at par and at a gain; the lots of the test suite; and a
\* lot of 20 shares whose acquisition gain is around the Macron III threshold.
Lots ==
    {<<10, v, FromInt(c), r>> :
        v \in Near(100), c \in {50, 150}, r \in {One, Frac(92, 100)}}
    \cup {<<10, FromInt(100), FromInt(100), r>> : r \in {One, Frac(92, 100)}}
    \cup {<<n, FromInt(100), FromInt(150), r>> :
        n \in {3000, 5000}, r \in {One, Frac(92, 100)}}
    \cup {<<20, v, FromInt(c), One>> :
        v \in Near(MACRON_III_THRESHOLD \div 20), c \in {12500, 20000}}

\* Totals of taxes and gross proceeds around 0, negative, and as they come out
\* of the lots above.
TaxTotals == Near(0) \cup {FromInt(x) : x \in {-100, 300, 547, 622, 1380}}

GrossProceeds == Near(0) \cup {FromInt(x) : x \in {-500, 500, 1380, 150000}}

\* Lots no form would accept but the types allow: no shares, a share count,
\* a value or a conversion rate below 0.
UncheckedLots ==
    { <<0, FromInt(100), FromInt(150), One>>,
      <<-10, FromInt(100), FromInt(150), Frac(92, 100)>>,
      <<10, FromInt(-100), FromInt(150), One>>,
      <<10, FromInt(100), FromInt(-150), One>>,
      <<10, FromInt(100), FromInt(150), Frac(-92, 100)>> }

VestingDates == {Date(2015, 8, 7), Date(2016, 2, 29)}

\* Sell dates are taken DayRadius days either side of the day of the vesting,
\* in the years of these anniversaries.
DayRadius == 1

SellYearOffsets == {-1, 0, 2, 8}

SellDates(vesting_date) ==
    {dt \in {Date(vesting_date.year + k, vesting_date.month, vesting_date.day + j) :
                k \in SellYearOffsets, j \in -DayRadius..DayRadius} : IsDate(dt)}

\* Vesting dates for the holding period alone: mid-month, 29 February and the
\* last day of a 31-day month.
HeldVestingDates == VestingDates \cup {Date(2019, 1, 31)}

HeldYearOffsets == {-3, -1, 0, 1, 2, 8}

\* Sell dates in every month of those years: the first day, the last days a
\* month can have, and DayRadius days either side of the day of the vesting.
HeldSellDates(vesting_date) ==
    {dt \in {Date(vesting_date.year + k, m, d) :
                k \in HeldYearOffsets, m \in 1..12,
                d \in {1, 28, 29, 30, 31}
                      \cup {vesting_date.day + j : j \in -DayRadius..DayRadius}} :
        IsDate(dt)}

\* The lots entered in the interface: those with a vesting value in whole
\* dollars.
ScenarioLots == {lot \in Lots \cup UncheckedLots : lot[2].d = 1}

\* (annual_income, tax_rate, use_progressive_tax) as the interface passes
\* them: the rate is always a number; the last option has the progressive
\* computation switched off with an income present.
ScenarioOptions ==
    { <<None, Frac(30, 100), FALSE>>, <<None, Frac(45, 100), FALSE>>,
      <<Zero, Frac(30, 100), TRUE>>, <<FromInt(25000), Frac(45, 100), TRUE>>,
      <<FromInt(50000), Frac(30, 100), TRUE>>, <<FromInt(25000), Frac(45, 100), FALSE>> }

ScenarioInput(vesting_date, sell_date, lot, regime, opt) ==
    [name |-> "Single", stock_ticker |-> "AAPL",
     vesting_date |-> vesting_date, sell_date |-> sell_date, num_shares |-> lot[1],
     vesting_value_usd |-> lot[2], current_value_usd |-> lot[3],
     usd_to_eur |-> lot[4], regime |-> regime,
     use_progressive_tax |-> opt[3], annual_income |-> opt[1], tax_rate |-> opt[2]]

RSUInput(vesting_date, sell_date, lot, regime, opt) ==
    [vesting_date |-> vesting_date, sell_date |-> sell_date, num_shares |-> lot[1],
     vesting_value_usd |-> lot[2], current_value_usd |-> lot[3],
     usd_to_eur |-> lot[4], regime |-> regime,
     annual_income |-> opt[1], acquisition_tax_rate |-> opt[2]]

-----------------------------------------------------------------------------
(* The calls.                                                              *)

Init ==
    /\ fn = "none"
    /\ args = <<>>
    /\ ret = <<>>
    /\ FRENCH_TAX_BRACKETS_2025 = FRENCH_TAX_BRACKETS_2025_at_import
    /\ SOCIAL_SECURITY_RATES = SOCIAL_SECURITY_RATES_at_import
    /\ session_state = session_state_at_start

GetMarginalTaxRate ==
    /\ fn = "none"
    /\ UNCHANGED <<tables, session_state>>
    /\ \E annual_income \in Incomes :
           /\ fn' = "get_marginal_tax_rate"
           /\ args' = <<annual_income>>
           /\ ret' = get_marginal_tax_rate(annual_income)

CalculateProgressiveIncomeTax ==
    /\ fn = "none"
    /\ UNCHANGED <<tables, session_state>>
    /\ \E taxable_income \in Incomes :
           /\ fn' = "calculate_progressive_income_tax"
           /\ args' = <<taxable_income>>
           /\ ret' = calculate_progressive_income_tax(taxable_income)

CalculateTaxOnAdditionalIncome ==
    /\ fn = "none"
    /\ UNCHANGED <<tables, session_state>>
    /\ \E base_income \in Incomes, total \in Incomes :
           LET additional_income == FSub(total, base_income)
           IN  /\ fn' = "calculate_tax_on_additional_income"
               /\ args' = <<base_income, additional_income>>
               /\ ret' = calculate_tax_on_additional_income(base_income, additional_income)

CalculateYearsHeld ==
    /\ fn = "none"
    /\ UNCHANGED <<tables, session_state>>
    /\ \E vesting_date \in HeldVestingDates :
           \E sell_date \in HeldSellDates(vesting_date) :
               /\ fn' = "calculate_years_held"
               /\ args' = <<vesting_date, sell_date>>
               /\ ret' = calculate_years_held(vesting_date, sell_date)

CalculateTaperRelief ==
    /\ fn = "none"
    /\ UNCHANGED <<tables, session_state>>
    /\ \E years_held \in YearsHeldValues, regime \in TaxRegime, acquisition_gain \in Gains :
           /\ fn' = "calculate_taper_relief"
           /\ args' = <<years_held, regime, acquisition_gain>>
           /\ ret' = calculate_taper_relief(years_held, regime, acquisition_gain)

CalculateAcquisitionSocialSecurity ==
    /\ fn = "none"
    /\ UNCHANGED <<tables, session_state>>
    /\ \E after_relief \in AfterReliefGains, regime \in TaxRegime, acquisition_gain \in Gains :
           /\ fn' = "calculate_acquisition_social_security"
           /\ args' = <<after_relief, regime, acquisition_gain>>
           /\ ret' = calculate_acquisition_social_security(after_relief, regime,
                                                           acquisition_gain)

CalculateAcquisitionIncomeTax ==
    /\ fn = "none"
    /\ UNCHANGED <<tables, session_state>>
    /\ \E after_relief \in AfterReliefGains, annual_income \in AnnualIncomes,
          tax_rate \in FlatRates :
           /\ fn' = "calculate_acquisition_income_tax"
           /\ args' = <<after_relief, annual_income, tax_rate>>
           /\ ret' = calculate_acquisition_income_tax(after_relief, annual_income, tax_rate)

CalculateCapitalGainTax ==
    /\ fn = "none"
    /\ UNCHANGED <<tables, session_state>>
    /\ \E capital_gain \in CapitalGains :
           /\ fn' = "calculate_capital_gain_tax"
           /\ args' = <<capital_gain>>
           /\ ret' = calculate_capital_gain_tax(capital_gain)

CalculateSalarialeContribution ==
    /\ fn = "none"
    /\ UNCHANGED <<tables, session_state>>
    /\ \E acquisition_gain \in Gains, regime \in TaxRegime :
           /\ fn' = "calculate_salariale_contribution"
           /\ args' = <<acquisition_gain, regime>>
           /\ ret' = calculate_salariale_contribution(acquisition_gain, regime)

CalculateEffectiveTaxRate ==
    /\ fn = "none"
    /\ UNCHANGED <<tables, session_state>>
    /\ \E total_taxes \in TaxTotals, gross_proceed \in GrossProceeds :
           /\ fn' = "calculate_effective_tax_rate"
           /\ args' = <<total_taxes, gross_proceed>>
           /\ ret' = calculate_effective_tax_rate(total_taxes, gross_proceed)

\* The note is asked for with the rate the resolver gave, as the whole
\* calculation does.
GetRegimeNotes ==
    /\ fn = "none"
    /\ UNCHANGED <<tables, session_state>>
    /\ \E regime \in TaxRegime, years_held \in YearsHeldValues, acquisition_gain \in Gains :
           LET taper_relief_rate ==
                   calculate_taper_relief(years_held, regime, acquisition_gain)[2]
           IN  /\ fn' = "get_regime_notes"
               /\ args' = <<regime, years_held, acquisition_gain, taper_relief_rate>>
               /\ ret' = get_regime_notes(regime, years_held, acquisition_gain,
                                          taper_relief_rate)

\* Mutant: the call takes the last bracket off the module's list.
CalculateRsuTaxes_popping ==
    /\ fn = "none"
    /\ FRENCH_TAX_BRACKETS_2025' =
           SubSeq(FRENCH_TAX_BRACKETS_2025, 1, Len(FRENCH_TAX_BRACKETS_2025) - 1)
    /\ UNCHANGED <<SOCIAL_SECURITY_RATES, session_state>>
    /\ \E vesting_date \in VestingDates, lot \in Lots \cup UncheckedLots, regime \in TaxRegime,
          opt \in TaxOptions :
           \E sell_date \in SellDates(vesting_date) :
               LET input_data == RSUInput(vesting_date, sell_date, lot, regime, opt)
               IN  /\ fn' = "calculate_rsu_taxes"
                   /\ args' = <<input_data>>
                   /\ ret' = calculate_rsu_taxes(input_data)

CalculateRsuTaxes ==
    /\ fn = "none"
    /\ UNCHANGED <<tables, session_state>>
    /\ \E vesting_date \in VestingDates, lot \in Lots \cup UncheckedLots, regime \in TaxRegime,
          opt \in TaxOptions :
           \E sell_date \in SellDates(vesting_date) :
               LET input_data == RSUInput(vesting_date, sell_date, lot, regime, opt)
               IN  /\ fn' = "calculate_rsu_taxes"
                   /\ args' = <<input_data>>
                   /\ ret' = calculate_rsu_taxes(input_data)

CalculateScenario ==
    /\ fn = "none"
    /\ UNCHANGED <<tables, session_state>>
    /\ \E vesting_date \in VestingDates, lot \in ScenarioLots, regime \in TaxRegime,
          opt \in ScenarioOptions :
           \E sell_date \in SellDates(vesting_date) :
               LET input_data == ScenarioInput(vesting_date, sell_date, lot, regime, opt)
               IN  /\ fn' = "calculate_scenario"
                   /\ args' = <<input_data>>
                   /\ ret' = calculate_scenario(input_data)

\* The caller keeps the result and calls again with the same input object.
CalculateRsuTaxesAgain ==
    /\ fn = "calculate_rsu_taxes"
    /\ UNCHANGED <<tables, session_state>>
    /\ fn' = "calculate_rsu_taxes_again"
    /\ args' = <<args[1], ret>>
    /\ ret' = calculate_rsu_taxes(args[1])

\* The caller takes the returned value and is idle again.
Return ==
    /\ fn # "none"
    /\ fn' = "none"
    /\ args' = <<>>
    /\ ret' = <<>>
    /\ UNCHANGED <<tables, session_state>>

Next ==
    \/ Return
    \/ GetMarginalTaxRate
    \/ CalculateProgressiveIncomeTax
    \/ CalculateTaxOnAdditionalIncome
    \/ CalculateYearsHeld
    \/ CalculateTaperRelief
    \/ CalculateAcquisitionSocialSecurity
    \/ CalculateAcquisitionIncomeTax
    \/ CalculateCapitalGainTax
    \/ CalculateSalarialeContribution
    \/ CalculateEffectiveTaxRate
    \/ GetRegimeNotes
    \/ CalculateRsuTaxes
    \/ CalculateRsuTaxesAgain
    \/ CalculateScenario

Spec == Init /\ [][Next]_vars

-----------------------------------------------------------------------------
(* The interface's fetch callbacks.  fetch_stock_price_no_cache and        *)
(* fetch_usd_eur_rate catch every exception and return a float or None;    *)
(* which one is up to the network, so each action draws it.                *)

\* What the fetches of the single mode may return: vesting, current, rate.
FetchedVesting == {None, Zero, Frac(1234567, 10000)}
FetchedCurrent == {None, Frac(24650, 100)}
FetchedRate == {None, Frac(86425, 100000)}

\* What the fetches of the compare mode may return, one set per fetch.
FetchedCompare ==
    <<{None, FromInt(101)}, {None, FromInt(151)},
      {None, Frac(8125, 100)}, {None, Zero}>>
FetchedCompareRate == {None, Frac(9, 10)}

FetchStockPrices ==
    \E vp \in FetchedVesting, cp \in FetchedCurrent :
        /\ fn' = "fetch_stock_prices"
        /\ args' = <<vp, cp>>
        /\ ret' = None
        /\ session_state' = fetch_stock_prices(session_state, vp, cp)
        /\ UNCHANGED tables

FetchUsdRate ==
    \E rate \in FetchedRate :
        /\ fn' = "fetch_usd_rate"
        /\ args' = <<rate>>
        /\ ret' = None
        /\ session_state' = fetch_usd_rate(session_state, rate)
        /\ UNCHANGED tables

FetchComparePrices ==
    \E a_vp \in FetchedCompare[1], a_cp \in FetchedCompare[2],
       b_vp \in FetchedCompare[3], b_cp \in FetchedCompare[4] :
        /\ fn' = "fetch_compare_prices"
        /\ args' = <<a_vp, a_cp, b_vp, b_cp>>
        /\ ret' = None
        /\ session_state' = fetch_compare_prices(session_state, a_vp, a_cp, b_vp, b_cp)
        /\ UNCHANGED tables

FetchCompareRate ==
    \E rate \in FetchedCompareRate :
        /\ fn' = "fetch_compare_rate"
        /\ args' = <<rate>>
        /\ ret' = None
        /\ session_state' = fetch_compare_rate(session_state, rate)
        /\ UNCHANGED tables

NextUI ==
    \/ FetchStockPrices
    \/ FetchUsdRate
    \/ FetchComparePrices
    \/ FetchCompareRate

SpecUI == Init /\ [][NextUI]_vars

-----------------------------------------------------------------------------
(* Properties.                                                             *)

FMax(a, b) == IF FGe(a, b) THEN a ELSE b

\* The part of an income x that lies in the tier from lo up to hi.
Slice(x, lo, hi) == FMax(Zero, FSub(FMin(x, hi), lo))

\* The five tiers written out: lower bound, upper bound, rate in percent.
Tiers ==
    { <<FromInt(0), FromInt(11497), 0>>,
      <<FromInt(11497), FromInt(29315), 11>>,
      <<FromInt(29315), FromInt(83823), 30>>,
      <<FromInt(83823), FromInt(180294), 41>>,
      <<FromInt(180294), Inf, 45>> }

\* The tiers of which the income between a and b (in either order) covers a
\* part of positive length.
TiersSpanned(a, b) ==
    LET lo == FMin(a, b)
        hi == FMax(a, b)
    IN  {t \in Tiers : FLt(FMax(lo, t[1]), FMin(hi, t[2]))}

\* C1: whenever the increment covers part of more than one tier of the table,
\* the tax on the additional income is strictly less than the increment taxed
\* whole at the marginal rate of base + increment.
C1_ProgressiveBelowFlat ==
    fn = "calculate_tax_on_additional_income" =>
        LET base == args[1]
            inc == args[2]
        IN  Cardinality(TiersSpanned(base, FAdd(base, inc))) > 1 =>
                FLt(ret, FMul(inc, get_marginal_tax_rate(FAdd(base, inc))))

\* C1 witness: base 25,000 and increment 10,000 span the 11% and 30% tiers;
\* the tax returned is 2,180.15, between 0 and 3,000.
C1_Witness ==
    /\ fn = "calculate_tax_on_additional_income"
    /\ args = <<FromInt(25000), FromInt(10000)>>
    /\ Cardinality(TiersSpanned(args[1], FAdd(args[1], args[2]))) = 2
    /\ ret = Frac(218015, 100)

\* C2: the tax on an income is the sum over the five tiers of the slice of the
\* income in the tier times the tier's rate, and is 0 for an income <= 0.
C2_ProgressiveIsSumOfSlices ==
    fn = "calculate_progressive_income_tax" =>
        LET x == args[1]
            part(lo, hi, pct) == FMul(Slice(x, lo, hi), Frac(pct, 100))
        IN  /\ ret = FAdd(part(FromInt(0), FromInt(11497), 0),
                      FAdd(part(FromInt(11497), FromInt(29315), 11),
                      FAdd(part(FromInt(29315), FromInt(83823), 30),
                      FAdd(part(FromInt(83823), FromInt(180294), 41),
                           part(FromInt(180294), Inf, 45)))))
            /\ FLe(x, Zero) => ret = Zero

\* C2 witness: an income of 200,000 reaches the top tier and pays in four.
C2_Witness ==
    /\ fn = "calculate_progressive_income_tax"
    /\ args = <<FromInt(200000)>>
    /\ ret = Frac(17818 * 11 + 54508 * 30 + 96471 * 41 + 19706 * 45, 100)

\* C3: the marginal rate is the rate of the highest bracket whose lower bound
\* is strictly below the income, and 0 when there is none (income <= 0).
C3_MarginalRateStrictlyAbove ==
    fn = "get_marginal_tax_rate" =>
        LET x == args[1]
            below == {t \in Tiers : FLt(t[1], x)}
            top == CHOOSE t \in below : \A u \in below : FLe(u[1], t[1])
        IN  /\ below = {} => ret = Zero
            /\ below # {} => ret = Frac(top[3], 100)
            /\ FLe(x, Zero) => ret = Zero

\* C3 witness: an income exactly at 29,315 still has the 11% rate, and one
\* euro above has 30%.
C3_Witness ==
    /\ fn = "get_marginal_tax_rate"
    /\ \/ args = <<FromInt(29315)>> /\ ret = Frac(11, 100)
       \/ args = <<FromInt(29316)>> /\ ret = Frac(30, 100)

\* The pre-relief acquisition gain as the input gives it.
InputGain(input_data) ==
    FMul(FromInt(input_data.num_shares),
         FMul(input_data.vesting_value_usd, input_data.usd_to_eur))

\* The gross proceed as the input gives it.
InputProceed(input_data) ==
    FMul(FromInt(input_data.num_shares),
         FMul(input_data.current_value_usd, input_data.usd_to_eur))

\* The Macron I tiers: below 2 years, from 2 up to 8, from 8 on.
MacronITier(years_held) ==
    IF FLt(years_held, FromInt(2)) THEN <<FALSE, Zero>>
    ELSE IF FLt(years_held, FromInt(8)) THEN <<TRUE, Frac(1, 2)>>
    ELSE <<TRUE, Frac(65, 100)>>

\* C4: under Macron I the relief is (FALSE, 0) below 2 years, (TRUE, 0.5) from
\* 2 up to 8 years and (TRUE, 0.65) from 8 years on, whatever the gain, both
\* from calculate_taper_relief and in the result of the whole calculation.
C4_MacronITiers ==
    /\ fn = "calculate_taper_relief" /\ args[2] = MACRON_I => ret = MacronITier(args[1])
    /\ fn = "calculate_rsu_taxes" /\ args[1].regime = MACRON_I =>
           <<ret.has_taper_relief, ret.taper_relief_rate>> = MacronITier(ret.years_held)

\* C4 witness: exactly 8 years held gets 65%, with a gain over 300,000.
C4_Witness ==
    /\ fn = "calculate_taper_relief"
    /\ args = <<FromInt(8), MACRON_I, FromInt(400000)>>
    /\ ret = <<TRUE, Frac(65, 100)>>

\* C5: in a Macron III result the relief is (TRUE, 0.5) exactly when the gain
\* computed from the input is at most 300,000 and (FALSE, 0) exactly when it
\* is more, whatever the dates.
C5_MacronIIIOnComputedGain ==
    fn = "calculate_rsu_taxes" /\ args[1].regime = MACRON_III =>
        IF FLe(InputGain(args[1]), FromInt(300000))
        THEN ret.has_taper_relief = TRUE /\ ret.taper_relief_rate = Frac(1, 2)
        ELSE ret.has_taper_relief = FALSE /\ ret.taper_relief_rate = Zero

\* C5 witness: 3,000 shares vested at 100 with rate 1: the gain is exactly
\* 300,000 and the relief applies.
C5_Witness ==
    /\ fn = "calculate_rsu_taxes"
    /\ args[1].regime = MACRON_III
    /\ args[1].num_shares = 3000
    /\ ret.acquisition_gain = FromInt(300000)
    /\ ret.has_taper_relief
    /\ ret.taper_relief_rate = Frac(1, 2)

\* 10% of the gain under Macron III over 300,000, else nothing.
Salariale(regime, acquisition_gain) ==
    IF regime = MACRON_III /\ FGt(acquisition_gain, FromInt(300000))
    THEN FMul(acquisition_gain, Frac(1, 10))
    ELSE Zero

\* C6: the salariale contribution is 10% of the pre-relief gain under Macron
\* III with a gain over 300,000, and 0 in every other case.
C6_SalarialeOnlyOverThreshold ==
    /\ fn = "calculate_salariale_contribution" => ret = Salariale(args[2], args[1])
    /\ fn = "calculate_rsu_taxes" =>
           ret.salariale_contribution = Salariale(args[1].regime, InputGain(args[1]))

\* C6 witness: a Macron III gain of 400,000 pays 40,000.
C6_Witness ==
    /\ fn = "calculate_salariale_contribution"
    /\ args = <<FromInt(400000), MACRON_III>>
    /\ ret = FromInt(40000)

\* The social security rate, in thousandths, by regime and threshold crossing.
SocialRate(regime, acquisition_gain) ==
    IF regime = MACRON_I THEN 172
    ELSE IF regime = MACRON_III
    THEN (IF FGt(acquisition_gain, FromInt(300000)) THEN 97 ELSE 172)
    ELSE 97

\* C7: the acquisition social security is the post-relief gain times 17.2%
\* (Macron I, Macron III up to 300,000) or 9.7% (Macron III over 300,000,
\* unrestricted).
C7_SocialSecurityRate ==
    /\ fn = "calculate_acquisition_social_security" =>
           ret = FMul(args[1], Frac(SocialRate(args[2], args[3]), 1000))
    /\ fn = "calculate_rsu_taxes" =>
           ret.acquisition_social_security =
               FMul(ret.acquisition_gain_after_relief,
                    Frac(SocialRate(args[1].regime, InputGain(args[1])), 1000))

\* C7 witness: Macron III over the threshold pays 9.7% of 400,000.
C7_Witness ==
    /\ fn = "calculate_acquisition_social_security"
    /\ args = <<FromInt(400000), MACRON_III, FromInt(400000)>>
    /\ ret = FromInt(38800)

\* The income tax on a post-relief gain for the options supplied.
IncomeTaxSelected(gain, annual_income, tax_rate) ==
    IF annual_income # None THEN calculate_tax_on_additional_income(annual_income, gain)
    ELSE IF tax_rate # None THEN FMul(gain, tax_rate)
    ELSE FMul(gain, Frac(30, 100))

\* C8: with an annual income supplied (0 included) the acquisition income tax
\* is the tax on the post-relief gain as additional income and the flat rate
\* is ignored; else it is the gain times the flat rate supplied; else the gain
\* times 0.30.
C8_IncomeTaxSelection ==
    /\ fn = "calculate_acquisition_income_tax" =>
           ret = IncomeTaxSelected(args[1], args[2], args[3])
    /\ fn = "calculate_rsu_taxes" =>
           ret.acquisition_income_tax =
               IncomeTaxSelected(ret.acquisition_gain_after_relief,
                                 args[1].annual_income, args[1].acquisition_tax_rate)

\* C8 witness: income 25,000 and flat rate 0.45 both supplied: the tax on
\* 10,000 is the progressive 2,180.15, not 4,500.
C8_Witness ==
    /\ fn = "calculate_acquisition_income_tax"
    /\ args = <<FromInt(10000), FromInt(25000), Frac(45, 100)>>
    /\ ret = Frac(218015, 100)

\* 30% of a gain, nothing of a loss.
Pfu(capital_gain) ==
    IF FGt(capital_gain, Zero) THEN FMul(capital_gain, Frac(30, 100)) ELSE Zero

\* C9: the capital gain tax is 0 for a capital gain <= 0 and 30% of it
\* otherwise, whatever the regime and the income, and is never negative.
C9_LossNotTaxed ==
    /\ fn = "calculate_capital_gain_tax" => ret = Pfu(args[1]) /\ FGe(ret, Zero)
    /\ fn = "calculate_rsu_taxes" =>
           /\ ret.capital_gain_tax = Pfu(ret.capital_gain)
           /\ FGe(ret.capital_gain_tax, Zero)

\* C9 witness: a loss of 10,000 is taxed 0.
C9_Witness ==
    /\ fn = "calculate_capital_gain_tax"
    /\ args = <<FromInt(-10000)>>
    /\ ret = Zero

\* C10: the capital gain is the gross proceed less the pre-relief acquisition
\* gain, so it and its tax are fixed by shares, prices and conversion rate
\* alone, the same under every regime and holding period.
C10_CapitalGainOnPreReliefBase ==
    fn = "calculate_rsu_taxes" =>
        /\ ret.capital_gain = FSub(ret.gross_proceed, ret.acquisition_gain)
        /\ ret.capital_gain = FSub(InputProceed(args[1]), InputGain(args[1]))
        /\ ret.capital_gain_tax = Pfu(FSub(InputProceed(args[1]), InputGain(args[1])))

\* C10 witness: 10 shares from 100 to 150 at rate 0.92 with the 65% relief:
\* the capital gain is still 1380 - 920 = 460.
C10_Witness ==
    /\ fn = "calculate_rsu_taxes"
    /\ ret.taper_relief_rate = Frac(65, 100)
    /\ ret.acquisition_gain = FromInt(920)
    /\ ret.acquisition_gain_after_relief = FromInt(322)
    /\ ret.capital_gain = FromInt(460)

\* C11: in every result the two values in EUR are the USD values times the
\* conversion rate, the gross proceed and the acquisition gain are the share
\* count times the current and the vesting value in EUR, and the gain after
\* relief is the acquisition gain times (1 - taper_relief_rate).
C11_ValuesAndGains ==
    fn = "calculate_rsu_taxes" =>
        LET input_data == args[1]
        IN  /\ ret.vesting_value_eur =
                   FMul(input_data.vesting_value_usd, input_data.usd_to_eur)
            /\ ret.current_value_eur =
                   FMul(input_data.current_value_usd, input_data.usd_to_eur)
            /\ ret.gross_proceed =
                   FMul(FromInt(input_data.num_shares), ret.current_value_eur)
            /\ ret.acquisition_gain =
                   FMul(FromInt(input_data.num_shares), ret.vesting_value_eur)
            /\ ret.acquisition_gain_after_relief =
                   FMul(ret.acquisition_gain, FSub(One, ret.taper_relief_rate))

\* C11 witness: 10 shares from 100 to 150 USD at rate 0.92 with the 50% relief
\* of Macron I: 92 and 138 EUR a share, 920 gained, 1380 gross, 460 relieved.
C11_Witness ==
    /\ fn = "calculate_rsu_taxes"
    /\ args[1].regime = MACRON_I
    /\ ret.taper_relief_rate = Frac(1, 2)
    /\ ret.vesting_value_eur = FromInt(92)
    /\ ret.current_value_eur = FromInt(138)
    /\ ret.gross_proceed = FromInt(1380)
    /\ ret.acquisition_gain = FromInt(920)
    /\ ret.acquisition_gain_after_relief = FromInt(460)

\* C12: in every result the total of taxes is the sum of the acquisition
\* social security, the acquisition income tax, the capital gain tax and the
\* salariale contribution, and the net in pocket is the gross proceed less
\* that total, also when the total exceeds the proceed.
C12_TotalAndNet ==
    fn = "calculate_rsu_taxes" =>
        /\ ret.total_taxes =
               FAdd(ret.acquisition_social_security,
                    FAdd(ret.acquisition_income_tax,
                         FAdd(ret.capital_gain_tax, ret.salariale_contribution)))
        /\ ret.net_in_pocket = FSub(ret.gross_proceed, ret.total_taxes)

\* C12 witness: 10 shares vested at 100 and sold at 50, unrestricted, flat
\* rate 0.45: 97 + 450 of taxes on 500 of proceeds leave -47.
C12_Witness ==
    /\ fn = "calculate_rsu_taxes"
    /\ args[1].regime = UNRESTRICTED
    /\ ret.gross_proceed = FromInt(500)
    /\ ret.total_taxes = FromInt(547)
    /\ ret.net_in_pocket = FromInt(-47)

\* C13: calculate_effective_tax_rate returns total_taxes / gross_proceed x 100
\* for a gross proceed above 0 and 0 for a gross proceed of 0 or below,
\* whatever the total of taxes; the result stores the same figure.
C13_EffectiveRateGuarded ==
    /\ fn = "calculate_effective_tax_rate" =>
           IF FGt(args[2], Zero)
           THEN FMul(ret, args[2]) = FMul(args[1], FromInt(100))
           ELSE ret = Zero
    /\ fn = "calculate_rsu_taxes" =>
           IF FGt(ret.gross_proceed, Zero)
           THEN FMul(ret.effective_tax_rate, ret.gross_proceed) =
                    FMul(ret.total_taxes, FromInt(100))
           ELSE ret.effective_tax_rate = Zero

\* C13 witness: taxes of 547 on a gross proceed of -500 give 0, not -109.4.
C13_Witness ==
    /\ fn = "calculate_effective_tax_rate"
    /\ args = <<FromInt(547), FromInt(-500)>>
    /\ ret = Zero

\* An input a user can enter: a positive share count, values and conversion
\* rate not below 0.
ValidInput(input_data) ==
    /\ input_data.num_shares > 0
    /\ FGe(input_data.vesting_value_usd, Zero)
    /\ FGe(input_data.current_value_usd, Zero)
    /\ FGe(input_data.usd_to_eur, Zero)

\* C14: the effective tax rate of every result for a valid input is a
\* percentage between 0 and 100.
C14_EffectiveRateIsPercentage ==
    fn = "calculate_rsu_taxes" /\ ValidInput(args[1]) =>
        /\ FGe(ret.effective_tax_rate, Zero)
        /\ FLe(ret.effective_tax_rate, FromInt(100))

\* C15: under the unrestricted regime calculate_taper_relief returns
\* (FALSE, 0) for every holding period and gain, and in every unrestricted
\* result the gain after relief is the acquisition gain and the salariale
\* contribution is 0.
C15_UnrestrictedNoRelief ==
    /\ fn = "calculate_taper_relief" /\ args[2] = UNRESTRICTED => ret = <<FALSE, Zero>>
    /\ fn = "calculate_rsu_taxes" /\ args[1].regime = UNRESTRICTED =>
           /\ ret.has_taper_relief = FALSE
           /\ ret.taper_relief_rate = Zero
           /\ ret.acquisition_gain_after_relief = ret.acquisition_gain
           /\ ret.acquisition_gain_after_relief = InputGain(args[1])
           /\ ret.salariale_contribution = Zero

\* C15 witness: unrestricted shares held 10 years with a gain of 400,000 get
\* no relief.
C15_Witness ==
    /\ fn = "calculate_taper_relief"
    /\ args = <<FromInt(10), UNRESTRICTED, FromInt(400000)>>
    /\ ret = <<FALSE, Zero>>

\* An unrestricted result after more than 8 years with a gain over 300,000:
\* nothing relieved, nothing contributed.
C15_WitnessResult ==
    /\ fn = "calculate_rsu_taxes"
    /\ args[1].regime = UNRESTRICTED
    /\ FGt(ret.years_held, FromInt(8))
    /\ FGt(ret.acquisition_gain, FromInt(300000))
    /\ ret.acquisition_gain_after_relief = ret.acquisition_gain
    /\ ret.salariale_contribution = Zero

\* The date k calendar months from dt, on the same day of the month or on the
\* last day of a shorter month.
MonthsFrom(dt, k) ==
    LET idx == dt.year * 12 + (dt.month - 1) + k
        year == idx \div 12
        month == (idx % 12) + 1
        last == DaysInMonth(year, month)
    IN  Date(year, month, IF dt.day > last THEN last ELSE dt.day)

\* The whole calendar months between two dates, counted towards the later one
\* and never past it.
WholeMonths(from, to) ==
    LET crude == (to.year - from.year) * 12 + (to.month - from.month)
    IN  IF ToOrdinal(to) >= ToOrdinal(from)
        THEN CHOOSE k \in (crude - 1)..crude :
                 /\ ToOrdinal(MonthsFrom(from, k)) <= ToOrdinal(to)
                 /\ ToOrdinal(MonthsFrom(from, k + 1)) > ToOrdinal(to)
        ELSE CHOOSE k \in crude..(crude + 1) :
                 /\ ToOrdinal(MonthsFrom(from, k)) >= ToOrdinal(to)
                 /\ ToOrdinal(MonthsFrom(from, k - 1)) < ToOrdinal(to)

\* The calendar-aware difference: whole years, whole months of the rest, and
\* the days left over.
CalendarDifference(from, to) ==
    LET k == WholeMonths(from, to)
        a == IF k < 0 THEN -k ELSE k
        s == IF k < 0 THEN -1 ELSE 1
    IN  [years |-> s * (a \div 12), months |-> s * (a % 12),
         days |-> ToOrdinal(to) - ToOrdinal(MonthsFrom(from, k))]

\* C16: calculate_years_held is whole years + whole months / 12 + remaining
\* days / 365 of the calendar-aware difference: 0 for equal dates, N on the
\* same month and day N years later, N + m/12 on the same day of the month m
\* months further.
C16_YearsHeldCalendarAware ==
    fn = "calculate_years_held" =>
        LET vesting_date == args[1]
            sell_date == args[2]
            diff == CalendarDifference(vesting_date, sell_date)
            months == (sell_date.year - vesting_date.year) * 12
                      + (sell_date.month - vesting_date.month)
        IN  /\ ret = FAdd(FromInt(diff.years),
                          FAdd(Frac(diff.months, 12), Frac(diff.days, 365)))
            /\ sell_date = vesting_date => ret = Zero
            /\ sell_date.month = vesting_date.month /\ sell_date.day = vesting_date.day
                   => ret = FromInt(sell_date.year - vesting_date.year)
            /\ sell_date.day = vesting_date.day /\ months >= 0
                   => ret = FAdd(FromInt(months \div 12), Frac(months % 12, 12))

\* C16 witness: vested 2019-01-31 and sold 2021-03-31, the same day of the
\* month 2 years and 2 months further: 2 + 2/12.
C16_Witness ==
    /\ fn = "calculate_years_held"
    /\ args = <<Date(2019, 1, 31), Date(2021, 3, 31)>>
    /\ ret = Frac(13, 6)

\* C17: when the sale strictly precedes the vesting, the years, months and
\* days of the difference are all at most 0 and calculate_years_held is
\* strictly negative, so Macron I grants such an input no relief.
C17_SaleBeforeVestingIsNegative ==
    /\ fn = "calculate_years_held" /\ ToOrdinal(args[2]) < ToOrdinal(args[1]) =>
           LET delta == relativedelta(args[2], args[1])
           IN  /\ delta.years <= 0 /\ delta.months <= 0 /\ delta.days <= 0
               /\ FLt(ret, Zero)
               /\ \A acquisition_gain \in Gains :
                      calculate_taper_relief(ret, MACRON_I, acquisition_gain) = <<FALSE, Zero>>
    /\ fn = "calculate_rsu_taxes" /\ args[1].regime = MACRON_I
         /\ ToOrdinal(args[1].sell_date) < ToOrdinal(args[1].vesting_date) =>
           /\ FLt(ret.years_held, Zero)
           /\ ret.has_taper_relief = FALSE
           /\ ret.taper_relief_rate = Zero
           /\ ret.acquisition_gain_after_relief = ret.acquisition_gain

\* C17 witness: vested 2016-02-29 and sold 2013-03-01, three years less a
\* day earlier: -2 years, -11 months, -28 days.
C17_Witness ==
    /\ fn = "calculate_years_held"
    /\ args = <<Date(2016, 2, 29), Date(2013, 3, 1)>>
    /\ relativedelta(args[2], args[1]) = [years |-> -2, months |-> -11, days |-> -28]
    /\ FLt(ret, FromInt(-2))

\* A Macron I result for a sale one year and a day before the vesting: no
\* relief.
C17_WitnessResult ==
    /\ fn = "calculate_rsu_taxes"
    /\ args[1].regime = MACRON_I
    /\ args[1].vesting_date = Date(2015, 8, 7)
    /\ args[1].sell_date = Date(2014, 8, 6)
    /\ ret.years_held = FSub(FromInt(-1), Frac(1, 365))
    /\ ret.has_taper_relief = FALSE

\* C18: calculate_tax_on_additional_income is 0 for an additional income of
\* 0, whatever the base income: positive, zero or negative.
C18_NothingAddedNothingOwed ==
    fn = "calculate_tax_on_additional_income" /\ args[2] = Zero => ret = Zero

\* C18 witness: nothing added to a base income of 50,000, which alone owes
\* tax, owes 0.
C18_Witness ==
    /\ fn = "calculate_tax_on_additional_income"
    /\ args = <<FromInt(50000), Zero>>
    /\ FGt(calculate_progressive_income_tax(args[1]), Zero)
    /\ ret = Zero

\* Nothing added to a base income below 0 owes 0.
C18_WitnessNegativeBase ==
    /\ fn = "calculate_tax_on_additional_income"
    /\ args = <<FromInt(-1000), Zero>>
    /\ ret = Zero

\* The fields of RSUResult.
ResultFields ==
    {"years_held", "has_taper_relief", "taper_relief_rate", "vesting_value_eur",
     "current_value_eur", "gross_proceed", "acquisition_gain",
     "acquisition_gain_after_relief", "capital_gain", "acquisition_social_security",
     "acquisition_income_tax", "capital_gain_tax", "salariale_contribution",
     "total_taxes", "net_in_pocket", "effective_tax_rate", "regime", "regime_notes"}

\* A value a computation delivered: not the outcome of a division by 0.
IsNumber(x) == DOMAIN x = {"n", "d"} /\ x.d > 0

\* C19: calculate_rsu_taxes returns a result with every field set for every
\* input, a share count of 0 or below and values or a conversion rate below 0
\* included, and the acquisition gain and the gross proceed are still the
\* share count times the value times the conversion rate as given.
C19_CompleteResultForAnyInput ==
    fn = "calculate_rsu_taxes" =>
        /\ DOMAIN ret = ResultFields
        /\ \A f \in ResultFields \ {"has_taper_relief", "regime", "regime_notes"} :
               IsNumber(ret[f])
        /\ ret.has_taper_relief \in BOOLEAN
        /\ ret.regime = args[1].regime
        /\ Len(ret.regime_notes) > 0
        /\ ret.acquisition_gain = InputGain(args[1])
        /\ ret.gross_proceed = InputProceed(args[1])

\* C19 witness: -10 shares from 100 to 150 USD at rate 0.92: a gain of -920
\* and a proceed of -1380, with an effective rate of 0.
C19_Witness ==
    /\ fn = "calculate_rsu_taxes"
    /\ args[1].num_shares = -10
    /\ ret.acquisition_gain = FromInt(-920)
    /\ ret.gross_proceed = FromInt(-1380)
    /\ ret.effective_tax_rate = Zero

\* No shares at all: every amount is 0 and the rate is 0 without a division.
C19_WitnessNoShares ==
    /\ fn = "calculate_rsu_taxes"
    /\ args[1].num_shares = 0
    /\ ret.gross_proceed = Zero
    /\ ret.total_taxes = Zero
    /\ ret.effective_tax_rate = Zero

\* A conversion rate below 0 goes through as given.
C19_WitnessNegativeRate ==
    /\ fn = "calculate_rsu_taxes"
    /\ args[1].usd_to_eur = Frac(-92, 100)
    /\ ret.vesting_value_eur = FromInt(-92)
    /\ ret.acquisition_gain = FromInt(-920)

FAbs(a) == IF FLt(a, Zero) THEN FNeg(a) ELSE a

\* The note names the tier: for a regime, the relief rate applied, whether the
\* salariale contribution is triggered, and the years held.
NoteNamesTier(note, regime, taper_relief_rate, salariale_triggered, years_held) ==
    IF regime = MACRON_I
    THEN /\ taper_relief_rate \in {Frac(65, 100), Frac(1, 2), Zero}
         /\ taper_relief_rate = Frac(65, 100) =>
                note = <<"Macron I: 65% abatement (held 8+ years)">>
         /\ taper_relief_rate = Frac(1, 2) =>
                note = <<"Macron I: 50% abatement (held 2-8 years)">>
         /\ taper_relief_rate = Zero =>
                /\ Len(note) = 3
                /\ note[1] = "Macron I: No abatement (held < 2 years, need "
                /\ note[3] = " more years)"
                \* the figure, in tenths, is 2 - years_held to the nearest tenth
                /\ FLe(FAbs(FSub(FMul(FromInt(10), FSub(FromInt(2), years_held)),
                                 FromInt(note[2]))),
                       Frac(1, 2))
    ELSE IF regime = MACRON_III
    THEN /\ \/ taper_relief_rate = Frac(1, 2) /\ ~salariale_triggered
            \/ taper_relief_rate = Zero /\ salariale_triggered
         /\ taper_relief_rate = Frac(1, 2) =>
                note = <<"Macron III: 50% automatic abatement (gain under 300k)">>
         /\ salariale_triggered =>
                note = <<"Macron III: Over 300k threshold - treated as salary + 10% contribution">>
    ELSE /\ taper_relief_rate = Zero
         /\ ~salariale_triggered
         /\ note = <<"Unrestricted: No abatement - fully taxed as salary">>

\* C20: the note of get_regime_notes names the relief tier the resolver
\* applied to the same input, in every result and for every holding period
\* and gain given to both functions, and the figure of the Macron I
\* no-abatement note is 2 - years_held to one decimal.
C20_NoteNamesAppliedTier ==
    /\ fn = "get_regime_notes" =>
           NoteNamesTier(ret, args[1],
                         calculate_taper_relief(args[2], args[1], args[3])[2],
                         calculate_salariale_contribution(args[3], args[1]) # Zero,
                         args[2])
    /\ fn = "calculate_rsu_taxes" =>
           NoteNamesTier(ret.regime_notes, args[1].regime, ret.taper_relief_rate,
                         ret.salariale_contribution # Zero, ret.years_held)

\* C20 witness: a Macron I result on the day of the 8th anniversary carries
\* the 65% relief and the 65% note.
C20_Witness ==
    /\ fn = "calculate_rsu_taxes"
    /\ args[1].regime = MACRON_I
    /\ ret.years_held = FromInt(8)
    /\ ret.taper_relief_rate = Frac(65, 100)
    /\ ret.regime_notes = <<"Macron I: 65% abatement (held 8+ years)">>

\* A Macron I result one day short of 2 years: no relief, and the note asks
\* for 0.0 more years.
C20_WitnessDayShort ==
    /\ fn = "calculate_rsu_taxes"
    /\ args[1].regime = MACRON_I
    /\ args[1].vesting_date = Date(2015, 8, 7)
    /\ args[1].sell_date = Date(2017, 8, 6)
    /\ ret.taper_relief_rate = Zero
    /\ ret.regime_notes =
           <<"Macron I: No abatement (held < 2 years, need ", 0, " more years)">>

\* A Macron III result over the threshold: no relief, the contribution and
\* the over-threshold note.
C20_WitnessMacronIII ==
    /\ fn = "calculate_rsu_taxes"
    /\ args[1].regime = MACRON_III
    /\ ret.taper_relief_rate = Zero
    /\ FGt(ret.salariale_contribution, Zero)
    /\ ret.regime_notes =
           <<"Macron III: Over 300k threshold - treated as salary + 10% contribution">>

\* An income lies inside a tier when it is strictly above the lower bound and
\* at most the upper bound.
InsideTier(x, t) == FGt(x, t[1]) /\ FLe(x, t[2])

\* C22: when the base income and the base plus the additional income lie
\* inside the same tier, the tax on the additional income is the additional
\* income times the rate of that tier, which is also the marginal rate of the
\* base.
C22_SameBracketIsFlat ==
    fn = "calculate_tax_on_additional_income" =>
        \A t \in Tiers :
            InsideTier(args[1], t) /\ InsideTier(FAdd(args[1], args[2]), t) =>
                /\ ret = FMul(args[2], Frac(t[3], 100))
                /\ ret = FMul(args[2], get_marginal_tax_rate(args[1]))

\* C22 witness: 15,000 more on a base of 35,000, both in the 30% tier, owe
\* 4,500.
C22_Witness ==
    /\ fn = "calculate_tax_on_additional_income"
    /\ args = <<FromInt(35000), FromInt(15000)>>
    /\ ret = FromInt(4500)

\* C24: in every Macron III result the three threshold tests agree: either
\* the relief is 50% with social security at 17.2% and no salariale
\* contribution, or there is no relief, social security is at 9.7%, the
\* salariale contribution is 10% of the acquisition gain and the gain after
\* relief is the acquisition gain.
C24_MacronIIIThresholdTestsAgree ==
    fn = "calculate_rsu_taxes" /\ args[1].regime = MACRON_III =>
        \/ /\ ret.has_taper_relief = TRUE
           /\ ret.taper_relief_rate = Frac(1, 2)
           /\ ret.acquisition_social_security =
                  FMul(ret.acquisition_gain_after_relief, Frac(172, 1000))
           /\ ret.salariale_contribution = Zero
        \/ /\ ret.has_taper_relief = FALSE
           /\ ret.taper_relief_rate = Zero
           /\ ret.acquisition_social_security =
                  FMul(ret.acquisition_gain_after_relief, Frac(97, 1000))
           /\ ret.salariale_contribution = FMul(ret.acquisition_gain, Frac(1, 10))
           /\ FGt(ret.salariale_contribution, Zero)
           /\ ret.acquisition_gain_after_relief = ret.acquisition_gain

\* C24 witness: 20 shares vested at 15,000.5 with rate 1, a gain of 300,010:
\* no relief, 9.7% of the whole gain and a contribution of 30,001.
C24_Witness ==
    /\ fn = "calculate_rsu_taxes"
    /\ args[1].regime = MACRON_III
    /\ ret.acquisition_gain = FromInt(300010)
    /\ ret.has_taper_relief = FALSE
    /\ ret.acquisition_social_security = FMul(FromInt(300010), Frac(97, 1000))
    /\ ret.salariale_contribution = FromInt(30001)

\* A Macron III gain of exactly 300,000: relieved by half, 17.2% of 150,000
\* and no contribution.
C24_WitnessAtThreshold ==
    /\ fn = "calculate_rsu_taxes"
    /\ args[1].regime = MACRON_III
    /\ ret.acquisition_gain = FromInt(300000)
    /\ ret.taper_relief_rate = Frac(1, 2)
    /\ ret.acquisition_social_security = FromInt(25800)
    /\ ret.salariale_contribution = Zero

\* C25: in every result the relief rate is 0, 0.5 or 0.65, the relief flag is
\* set exactly when the rate is above 0, and 0.65 occurs only under Macron I.
C25_ReliefRateValues ==
    fn = "calculate_rsu_taxes" =>
        /\ ret.taper_relief_rate \in {Zero, Frac(1, 2), Frac(65, 100)}
        /\ ret.has_taper_relief <=> FGt(ret.taper_relief_rate, Zero)
        /\ ret.taper_relief_rate = Frac(65, 100) => args[1].regime = MACRON_I

\* C25 witness: a Macron III result over the threshold, held more than 8
\* years: rate 0 and no flag.
C25_Witness ==
    /\ fn = "calculate_rsu_taxes"
    /\ args[1].regime = MACRON_III
    /\ FGt(ret.years_held, FromInt(8))
    /\ FGt(ret.acquisition_gain, FromInt(300000))
    /\ ret.taper_relief_rate = Zero
    /\ ret.has_taper_relief = FALSE

\* C26: for a valid input with any annual income, one below 0 included, and a
\* flat rate, if given, not below 0, the four taxes of the result are each at
\* least 0, so the total is at least 0 and the net in pocket at most the gross
\* proceed.
C26_TaxesNotNegative ==
    fn = "calculate_rsu_taxes" /\ ValidInput(args[1])
      /\ (args[1].acquisition_tax_rate = None \/ FGe(args[1].acquisition_tax_rate, Zero)) =>
        /\ FGe(ret.acquisition_social_security, Zero)
        /\ FGe(ret.acquisition_income_tax, Zero)
        /\ FGe(ret.capital_gain_tax, Zero)
        /\ FGe(ret.salariale_contribution, Zero)
        /\ FGe(ret.total_taxes, Zero)
        /\ FLe(ret.net_in_pocket, ret.gross_proceed)

\* C26 witness: an annual income of -1,000 and an unrelieved gain of 1,000:
\* the gain only brings the income up to 0 and owes no income tax.
C26_Witness ==
    /\ fn = "calculate_rsu_taxes"
    /\ ValidInput(args[1])
    /\ args[1].annual_income = FromInt(-1000)
    /\ ret.acquisition_gain_after_relief = FromInt(1000)
    /\ ret.acquisition_income_tax = Zero
    /\ FGt(ret.total_taxes, Zero)

\* With an annual income of -1,000 a gain of 500,000 owes income tax.
C26_WitnessLargeGain ==
    /\ fn = "calculate_rsu_taxes"
    /\ ValidInput(args[1])
    /\ args[1].annual_income = FromInt(-1000)
    /\ ret.acquisition_gain_after_relief = FromInt(500000)
    /\ FGt(ret.acquisition_income_tax, Zero)

\* C27: calculate_progressive_income_tax is non-decreasing in the income, and
\* the tax on an additional income of 0 or more lies between 0 and 45% of it,
\* both included.
C27_TaxOnAdditionalWithinTopRate ==
    /\ fn = "calculate_progressive_income_tax" =>
           \A lower \in Incomes :
               FLe(lower, args[1]) => FLe(calculate_progressive_income_tax(lower), ret)
    /\ fn = "calculate_tax_on_additional_income" /\ FGe(args[2], Zero) =>
           /\ FGe(ret, Zero)
           /\ FLe(ret, FMul(args[2], Frac(45, 100)))

\* C27 witness: 10,000 more on a base of 190,000, all in the top tier, owe
\* exactly 45% of it.
C27_Witness ==
    /\ fn = "calculate_tax_on_additional_income"
    /\ args = <<FromInt(190000), FromInt(10000)>>
    /\ ret = FromInt(4500)

\* One euro across the 30% threshold, from 29,315 to 29,316, owes 0.30.
C27_WitnessAcrossThreshold ==
    /\ fn = "calculate_tax_on_additional_income"
    /\ args = <<FromInt(29315), One>>
    /\ ret = Frac(30, 100)

\* C28: for every whole income n, the progressive tax of n + 1 less that of n
\* is the marginal rate of n + 1.
C28_MarginalRateIsTaxOfNextEuro ==
    fn = "get_marginal_tax_rate" /\ args[1].d = 1 =>
        ret = FSub(calculate_progressive_income_tax(args[1]),
                   calculate_progressive_income_tax(FSub(args[1], One)))

\* C28 witness: the euro from 83,823 to 83,824 is the first taxed at 41%.
C28_Witness ==
    /\ fn = "get_marginal_tax_rate"
    /\ args = <<FromInt(83824)>>
    /\ ret = Frac(41, 100)
    /\ FSub(calculate_progressive_income_tax(FromInt(83824)),
            calculate_progressive_income_tax(FromInt(83823))) = Frac(41, 100)

\* The euro from 83,822 to 83,823 is still taxed at 30%.
C28_WitnessAtThreshold ==
    /\ fn = "get_marginal_tax_rate"
    /\ args = <<FromInt(83823)>>
    /\ ret = Frac(30, 100)
    /\ FSub(calculate_progressive_income_tax(FromInt(83823)),
            calculate_progressive_income_tax(FromInt(83822))) = Frac(30, 100)

\* The N-th calendar anniversary of a date: the same month and day N years
\* later, 28 February for a 29 February in a year that has none.
Anniversary(dt, n) == MonthsFrom(dt, 12 * n)

OnOrAfter(a, b) == ToOrdinal(a) >= ToOrdinal(b)

\* C29: for a sale on or after the vesting the part of calculate_years_held
\* beyond the whole years is at least 0 and strictly less than 1, so the
\* figure reaches 2 (8) exactly from the second (eighth) anniversary on, and
\* Macron I relief starts on the anniversary, neither before nor after.
C29_ReliefStartsOnAnniversary ==
    /\ fn = "calculate_years_held" /\ OnOrAfter(args[2], args[1]) =>
           LET whole == CalendarDifference(args[1], args[2]).years
               part == FSub(ret, FromInt(whole))
           IN  /\ FGe(part, Zero) /\ FLt(part, One)
               /\ FGe(ret, FromInt(2)) <=> OnOrAfter(args[2], Anniversary(args[1], 2))
               /\ FGe(ret, FromInt(8)) <=> OnOrAfter(args[2], Anniversary(args[1], 8))
    /\ fn = "calculate_rsu_taxes" /\ args[1].regime = MACRON_I
         /\ OnOrAfter(args[1].sell_date, args[1].vesting_date) =>
           /\ ret.has_taper_relief <=>
                  OnOrAfter(args[1].sell_date, Anniversary(args[1].vesting_date, 2))
           /\ ret.taper_relief_rate = Frac(65, 100) <=>
                  OnOrAfter(args[1].sell_date, Anniversary(args[1].vesting_date, 8))

\* C29 witness: vested 2019-01-31 and sold 2020-01-30, a day short of a year:
\* 11 months and 30 days, 11/12 + 30/365 of a year, still below 1.
C29_Witness ==
    /\ fn = "calculate_years_held"
    /\ args = <<Date(2019, 1, 31), Date(2020, 1, 30)>>
    /\ ret = FAdd(Frac(11, 12), Frac(30, 365))
    /\ FLt(ret, One)

\* Vested 2015-08-07: sold 2017-08-06, no Macron I relief yet.
C29_WitnessDayBefore ==
    /\ fn = "calculate_rsu_taxes"
    /\ args[1].regime = MACRON_I
    /\ args[1].vesting_date = Date(2015, 8, 7)
    /\ args[1].sell_date = Date(2017, 8, 6)
    /\ ret.has_taper_relief = FALSE

\* Vested 2015-08-07: sold 2017-08-07, relieved by half.
C29_WitnessOnTheDay ==
    /\ fn = "calculate_rsu_taxes"
    /\ args[1].regime = MACRON_I
    /\ args[1].vesting_date = Date(2015, 8, 7)
    /\ args[1].sell_date = Date(2017, 8, 7)
    /\ ret.has_taper_relief = TRUE
    /\ ret.taper_relief_rate = Frac(1, 2)

\* Vested 2016-02-29 and sold 2018-02-28, the last day of February two years
\* on: relieved by half.
C29_WitnessLeapDay ==
    /\ fn = "calculate_rsu_taxes"
    /\ args[1].regime = MACRON_I
    /\ args[1].vesting_date = Date(2016, 2, 29)
    /\ args[1].sell_date = Date(2018, 2, 28)
    /\ ret.years_held = FromInt(2)
    /\ ret.has_taper_relief = TRUE

SharedFields ==
    {"years_held", "has_taper_relief", "taper_relief_rate", "vesting_value_eur",
     "current_value_eur", "gross_proceed", "acquisition_gain",
     "acquisition_gain_after_relief", "capital_gain", "acquisition_social_security",
     "acquisition_income_tax", "capital_gain_tax", "salariale_contribution",
     "total_taxes", "net_in_pocket", "effective_tax_rate"}

\* The library's input for a scenario of the interface.
LibraryInput(scenario) ==
    [vesting_date |-> scenario.vesting_date, sell_date |-> scenario.sell_date,
     num_shares |-> scenario.num_shares,
     vesting_value_usd |-> scenario.vesting_value_usd,
     current_value_usd |-> scenario.current_value_usd,
     usd_to_eur |-> scenario.usd_to_eur, regime |-> scenario.regime,
     annual_income |-> scenario.annual_income,
     acquisition_tax_rate |-> scenario.tax_rate]

\* C23: when use_progressive_tax is set exactly when an annual income is
\* supplied, calculate_scenario gives every field it shares with
\* calculate_rsu_taxes the value the library gives for the same dates, lot,
\* regime, income and flat rate.
C23_ScenarioMatchesLibrary ==
    fn = "calculate_scenario"
      /\ (args[1].use_progressive_tax <=> args[1].annual_income # None) =>
        LET library == calculate_rsu_taxes(LibraryInput(args[1]))
        IN  \A f \in SharedFields : ret[f] = library[f]

\* C23 witness: a Macron III scenario over the threshold with an income of
\* 25,000 taxed progressively.
C23_Witness ==
    /\ fn = "calculate_scenario"
    /\ args[1].regime = MACRON_III
    /\ args[1].use_progressive_tax = TRUE
    /\ args[1].annual_income = FromInt(25000)
    /\ ret.acquisition_gain = FromInt(500000)
    /\ ret.total_taxes = calculate_rsu_taxes(LibraryInput(args[1])).total_taxes
    /\ FGt(ret.salariale_contribution, Zero)

\* With the progressive computation switched off and an income present the
\* two differ: the interface taxes at the flat rate, the library does not.
C23_WitnessOutsideCondition ==
    /\ fn = "calculate_scenario"
    /\ args[1].use_progressive_tax = FALSE
    /\ args[1].annual_income = FromInt(25000)
    /\ ret.acquisition_income_tax #
           calculate_rsu_taxes(LibraryInput(args[1])).acquisition_income_tax

\* The value each callback's fetches are stored under, in the order of its
\* fetches, and the key of its status text.
Callbacks ==
    [fetch_stock_prices |->
         [values |-> <<"single_vesting_value", "single_current_value">>,
          status |-> "fetch_status"],
     fetch_usd_rate |->
         [values |-> <<"single_usd_eur_input">>, status |-> "rate_status"],
     fetch_compare_prices |->
         [values |-> <<"a_vesting_value", "a_current_value",
                       "b_vesting_value", "b_current_value">>,
          status |-> "compare_fetch_status"],
     fetch_compare_rate |->
         [values |-> <<"compare_usd_eur">>, status |-> "compare_rate_status"]]

\* One run of a fetch callback: each of its values is overwritten by what
\* its own fetch returned, or kept when that fetch returned None, whatever
\* the other fetches did; the status text is written; every other key of
\* the session is kept.
FetchStep ==
    /\ fn' \in DOMAIN Callbacks
    /\ LET callback == Callbacks[fn']
           fetched == args'
           written == {callback.values[i] : i \in DOMAIN callback.values}
       IN  /\ Len(fetched) = Len(callback.values)
           /\ DOMAIN session_state' = DOMAIN session_state \cup {callback.status}
           /\ \A i \in DOMAIN fetched :
                  session_state'[callback.values[i]] =
                      IF fetched[i] = None
                      THEN session_state[callback.values[i]]
                      ELSE fetched[i]
           /\ \A key \in DOMAIN session_state \ (written \cup {callback.status}) :
                  session_state'[key] = session_state[key]
           /\ (\A i \in DOMAIN fetched : fetched[i] = None) =>
                  \A key \in DOMAIN session_state \ {callback.status} :
                      session_state'[key] = session_state[key]

\* C30: every fetch callback overwrites a value of the session only with a
\* fetch that returned something, each value on its own; a fetch that
\* returned None leaves its value as it was and only the status text is
\* written.
C30_FailedFetchKeepsValue == [][FetchStep]_vars

\* In the compare mode the two fetches of scenario A failed and those of
\* scenario B succeeded: A keeps the values typed in, B has the fetched ones.
C30_Witness ==
    /\ fn = "fetch_compare_prices"
    /\ args = <<None, None, Frac(8125, 100), Zero>>
    /\ session_state.a_vesting_value = FromInt(100)
    /\ session_state.a_current_value = FromInt(150)
    /\ session_state.b_vesting_value = Frac(8125, 100)
    /\ session_state.b_current_value = Zero
    /\ session_state.compare_fetch_status =
           <<"A: ", <<"N/A">>, "/", <<"N/A">>, " | B: ", <<"$", 8125>>, "/", <<"N/A">>>>

\* The rate fetch failed after an earlier one had succeeded: the fetched
\* rate is still there and the status says the fetch failed.
C30_WitnessRateKept ==
    /\ fn = "fetch_usd_rate"
    /\ args = <<None>>
    /\ session_state.single_usd_eur_input = Frac(86425, 100000)
    /\ session_state.rate_status = <<"Failed to fetch rate">>

\* In the single mode the vesting fetch failed and the current one
\* succeeded, after an earlier vesting fetch; 123.4567 is shown as $123.46.
C30_WitnessSingle ==
    /\ fn = "fetch_stock_prices"
    /\ args = <<None, Frac(24650, 100)>>
    /\ session_state.single_vesting_value = Frac(1234567, 10000)
    /\ session_state.single_current_value = Frac(24650, 100)
    /\ session_state.fetch_status =
           <<"Vesting: ", <<"failed">>, ", Current: ", <<"$", 24650>>>>

====
